---- MODULE Spec2Model ----
(***************************************************************************)
(* Automation controller of the SIBOLTECH growing enclosure                *)
(* (src/automation.py) together with the relay mirror and the mode         *)
(* handlers of the HTTP layer that drive it (src/api.py).                  *)
(*                                                                         *)
(* Time is the wall clock in whole seconds of local time.  Sensor values   *)
(* are fixed-point integers: tenths for temperature, humidity, pH and      *)
(* dissolved oxygen, whole ppm for TDS.  A filtered value is kept as the   *)
(* exact fraction sum/len, so every threshold comparison of the code is    *)
(* decided exactly.  Python's True / False / None are the strings "True",  *)
(* "False" and "None".                                                     *)
(***************************************************************************)
EXTENDS Integers, Sequences, FiniteSets, TLC

VARIABLES
    now,                      \* time.time(), whole seconds
    boot,                     \* time.time() when the controller was constructed
    wake,                     \* _loop: instant at which the current sleep(1) ends
    stop_event,               \* AutomationController._stop_event
    filters,                  \* AutomationController.filters: name -> SensorFilter.values
    relays,                   \* AutomationController.relays: name -> RelayState
    override_mode,            \* AutomationController.override_mode
    misting_last_on,
    misting_last_off,
    tds_dosing_active,
    tds_dose_last_on,
    tds_dose_last_off,
    ph_dosing_until,
    last_enforce,             \* AutomationController._last_enforce
    RELAY_STATES,             \* api.py mirror polled by the ESP32
    OVERRIDE_MODE_ENABLED,    \* api.py flag
    CALIBRATION_MODE_ENABLED, \* api.py flag
    events,                   \* external events still to come: readings, mode requests,
                              \* stop requests, driver failures, late ticks
    op,                       \* the handler that last ran rules or changed the override mode
    log,                      \* set() calls and callback invocations of that handler
    thread_alive,             \* AutomationController._thread.is_alive()
    pc,                       \* request thread inside set_override: 0 outside, i in 1..9
                              \* before the reset of the i-th relay, 10 before the rule pass
    snap,                     \* loop thread inside SensorFilter.get: what it has read so far
    accepted                  \* how many samples the filter driven directly has accepted

vars == <<now, boot, wake, stop_event, filters, relays, override_mode,
          misting_last_on, misting_last_off, tds_dosing_active,
          tds_dose_last_on, tds_dose_last_off, ph_dosing_until, last_enforce,
          RELAY_STATES, OVERRIDE_MODE_ENABLED, CALIBRATION_MODE_ENABLED,
          events, op, log, thread_alive, pc, snap, accepted>>

(***************************************************************************)
(* Bounds of the model.                                                    *)
(***************************************************************************)
Horizon == 12       \* seconds of wall clock explored after the loop has started
MaxLate == 1        \* a tick starts at most this long after its sleep ended
WarmUp == 5         \* readings fed before the loop starts: none, or this many
MaxEvents == 2      \* external events explored while the loop runs
MaxFail == 1        \* the callback invocation of a handler that may raise: 1..MaxFail
MaxAccepted == 11   \* samples a filter driven directly accepts

(***************************************************************************)
(* Configuration (src/automation.py).                                      *)
(***************************************************************************)
RELAY == [LEAFY_GREEN |-> 1, PH_DOWN |-> 2, PH_UP |-> 3, MISTING |-> 4,
          EXHAUST_OUT |-> 5, GROW_LIGHTS_AERO |-> 6, AIR_PUMP |-> 7,
          GROW_LIGHTS_DWC |-> 8, EXHAUST_IN |-> 9]
RelayNames == DOMAIN RELAY
FilterNames == {"temperature", "humidity", "ph", "do", "tds"}

FILTER_WINDOW_SIZE == 10
DEBOUNCE_TIME == 5
DO_LOW == 70            \* 7.0 mg/L
DO_HIGH == 85           \* 8.5 mg/L
TEMP_DAY_HIGH == 260    \* 26.0 C
TEMP_DAY_LOW == 230     \* 23.0 C
TEMP_NIGHT_HIGH == 220  \* 22.0 C
TEMP_NIGHT_LOW == 190   \* 19.0 C
HUMIDITY_HIGH == 700    \* 70.0 %
PH_LOW == 55            \* 5.5
PH_HIGH == 70           \* 7.0
PH_DOSE_TIME == 2
PH_COOLDOWN == 30
TDS_LOW == 675
TDS_HIGH == 800
TDS_DOSE_ON == 2
TDS_DOSE_OFF == 30
MISTING_ON == 5
MISTING_OFF == 900
LIGHTS_ON_HOUR == 6
LIGHTS_OFF_HOUR == 18
ENFORCE_INTERVAL == 10
HUMIDITY_LOW == 600     \* 60.0 %, reported by get_status only

None == "None"
True == "True"
False == "False"
PyBool(b) == IF b THEN True ELSE False
\* Python truthiness of a relay state: bool(None) = bool(False) = False
Truthy(s) == s = True

(***************************************************************************)
(* SensorFilter                                                            *)
(***************************************************************************)
RECURSIVE Sum(_)
Sum(s) == IF s = <<>> THEN 0 ELSE Head(s) + Sum(Tail(s))

RECURSIVE SumSq(_)
SumSq(s) == IF s = <<>> THEN 0 ELSE Head(s) * Head(s) + SumSq(Tail(s))

\* SensorFilter.get: the mean as the fraction num/den; 0.0 for no samples
get(values) ==
    IF values = <<>> THEN [num |-> 0, den |-> 1]
    ELSE [num |-> Sum(values), den |-> Len(values)]

\* comparisons of a filtered value with a threshold
Lt(m, k) == m.num < k * m.den
Le(m, k) == m.num <= k * m.den
Gt(m, k) == m.num > k * m.den
Ge(m, k) == m.num >= k * m.den

\* Samples all equal to x have variance 0, but in binary floating point
\* sum(values) / len(values) of n copies of x is not always x: the computed std
\* is then a few units in the last place, greater than 0.  The pairs <<x, n>>
\* (x in tenths) for which that happens, for the sample 6.9
FloatResidue == {<<69, n>> : n \in {3, 6, 7, 8, 9}}

\* std > 0 and abs(value - mean) > 3 * std, with n = len, S = sum, Q = sum of squares:
\* variance = (n*Q - S*S) / n^2 and (value - S/n)^2 = (n*value - S)^2 / n^2.
\* On equal samples with a floating-point residue, abs(x - mean) = std for the
\* held sample x itself, and every other value is farther than 3 * std
IsOutlier(values, value) ==
    LET n == Len(values)
        S == Sum(values)
        Q == SumSq(values)
        d == n * value - S
    IN  IF n * Q - S * S > 0 THEN d * d > 9 * (n * Q - S * S)
        ELSE <<values[1], n>> \in FloatResidue /\ value # values[1]

\* a deque without maxlen
DequeAppend_NoEviction(values, value) == Append(values, value)

\* deque(maxlen=window_size).append
DequeAppend(values, value) ==
    IF Len(values) >= FILTER_WINDOW_SIZE THEN Append(Tail(values), value)
    ELSE Append(values, value)

\* a reading whose value is None
NoSample == -1000

\* SensorFilter.add without the outlier test
add_NoOutlierTest(values, value) ==
    IF value = NoSample \/ value < 0 THEN values
    ELSE DequeAppend(values, value)

\* SensorFilter.add that rejects a missing value only
add_AcceptsNegative(values, value) ==
    IF value = NoSample THEN values
    ELSE IF Len(values) >= 3 /\ IsOutlier(values, value) THEN values
    ELSE DequeAppend(values, value)

\* SensorFilter.add: the new history
add(values, value) ==
    IF value = NoSample \/ value < 0 THEN values
    ELSE IF Len(values) >= 3 /\ IsOutlier(values, value) THEN values
    ELSE DequeAppend(values, value)

\* SensorFilter.add: the returned value, self.get() of the new history
add_returns(values, value) == get(add(values, value))

\* ready() that waits for a full window
ready_NeedsFullWindow(values) == Len(values) >= FILTER_WINDOW_SIZE

ready(values) == Len(values) >= FILTER_WINDOW_SIZE \div 2
fast_ready(values) == Len(values) >= 2

(***************************************************************************)
(* RelayState                                                              *)
(***************************************************************************)
\* RelayState.__init__
RelayState_init == [state |-> False, last_change |-> 0]

\* RelayState.can_change at time t
can_change(relay, t) == t - relay.last_change >= DEBOUNCE_TIME

\* RelayState.set without the debounce test
RelayState_set_NoDebounce(relay, state, force, t) ==
    IF relay.state # None /\ state = relay.state /\ ~force
    THEN [relay |-> relay, changed |-> FALSE]
    ELSE [relay |-> [state |-> state, last_change |-> t], changed |-> TRUE]

\* RelayState.set whose debounce test does not exempt the unknown state
RelayState_set_DebounceOnUnknown(relay, state, force, t) ==
    IF relay.state # None /\ state = relay.state /\ ~force
    THEN [relay |-> relay, changed |-> FALSE]
    ELSE IF ~force /\ ~can_change(relay, t)
    THEN [relay |-> relay, changed |-> FALSE]
    ELSE [relay |-> [state |-> state, last_change |-> t], changed |-> TRUE]

\* RelayState.set whose equal-state test forgets force
RelayState_set_EqualIgnoresForce(relay, state, force, t) ==
    IF relay.state # None /\ state = relay.state
    THEN [relay |-> relay, changed |-> FALSE]
    ELSE IF ~force /\ relay.state # None /\ ~can_change(relay, t)
    THEN [relay |-> relay, changed |-> FALSE]
    ELSE [relay |-> [state |-> state, last_change |-> t], changed |-> TRUE]

\* RelayState.set at time t: the relay afterwards and the returned flag
RelayState_set(relay, state, force, t) ==
    IF relay.state # None /\ state = relay.state /\ ~force
    THEN [relay |-> relay, changed |-> FALSE]
    ELSE IF ~force /\ relay.state # None /\ ~can_change(relay, t)
    THEN [relay |-> relay, changed |-> FALSE]
    ELSE [relay |-> [state |-> state, last_change |-> t], changed |-> TRUE]

(***************************************************************************)
(* The state a handler works on.  A handler threads the record through its *)
(* statements; exc = TRUE once the callback has raised, and every          *)
(* statement after that is skipped up to the enclosing try/except.         *)
(* fail is the number of the callback invocation that raises (0: none).    *)
(* vals are the filtered values _process_automation reads when it starts.  *)
(***************************************************************************)
Self(fail) ==
    [relays |-> relays,
     misting_last_on |-> misting_last_on,
     misting_last_off |-> misting_last_off,
     tds_dosing_active |-> tds_dosing_active,
     tds_dose_last_on |-> tds_dose_last_on,
     tds_dose_last_off |-> tds_dose_last_off,
     ph_dosing_until |-> ph_dosing_until,
     last_enforce |-> last_enforce,
     RELAY_STATES |-> RELAY_STATES,
     OVERRIDE_MODE_ENABLED |-> OVERRIDE_MODE_ENABLED,
     CALIBRATION_MODE_ENABLED |-> CALIBRATION_MODE_ENABLED,
     vals |-> [f \in FilterNames |-> get(filters[f])],
     fail |-> fail, ncb |-> 0, exc |-> FALSE, log |-> <<>>]

\* log entry of a RelayState.set call: the request, the relay as it was before
\* the call, the instant of the call and the returned flag
SetRec(name, state, force, relay, changed) ==
    [kind |-> "set", relay |-> name, state |-> state, force |-> force,
     pre |-> relay.state, pre_change |-> relay.last_change, at |-> now,
     changed |-> changed, raised |-> FALSE]

\* log entry of a callback invocation: kind "cb" from _set_relay, "enforce" from
\* _enforce_relay_states
CbRec(kind, name, state, raised) ==
    [kind |-> kind, relay |-> name, state |-> state, force |-> FALSE,
     pre |-> None, pre_change |-> 0, at |-> now,
     changed |-> FALSE, raised |-> raised]

\* _automation_relay_callback that tests the override flag only
automation_relay_callback_IgnoresCalibration(c, relay_id, state) ==
    IF state = None THEN c.RELAY_STATES
    ELSE IF c.OVERRIDE_MODE_ENABLED THEN c.RELAY_STATES
    ELSE [c.RELAY_STATES EXCEPT ![relay_id] = state]

\* api._automation_relay_callback: the mirror after the call
automation_relay_callback(c, relay_id, state) ==
    IF state = None THEN c.RELAY_STATES
    ELSE IF c.OVERRIDE_MODE_ENABLED \/ c.CALIBRATION_MODE_ENABLED THEN c.RELAY_STATES
    ELSE [c.RELAY_STATES EXCEPT ![relay_id] = state]

\* self.relay_callback(relay_id, state): the registered driver callback, which
\* either raises (invocation number c.fail) or runs api._automation_relay_callback
relay_callback(c, kind, name, state) ==
    LET n == c.ncb + 1
    IN  IF n = c.fail
        THEN [c EXCEPT !.ncb = n, !.exc = TRUE,
                       !.log = Append(@, CbRec(kind, name, state, TRUE))]
        ELSE [c EXCEPT !.ncb = n,
                       !.RELAY_STATES = automation_relay_callback(c, RELAY[name], state),
                       !.log = Append(@, CbRec(kind, name, state, FALSE))]

\* _set_relay that invokes the callback whenever the request differs from the
\* stored state or is forced, whatever set() returned
set_relay_CallbackWhenDiffers(c, name, state, force) ==
    IF c.exc \/ state = None THEN c
    ELSE LET res == RelayState_set(c.relays[name], state, force, now)
             c1 == [c EXCEPT !.relays[name] = res.relay,
                             !.log = Append(@, SetRec(name, state, force,
                                                      c.relays[name], res.changed))]
         IN  IF force \/ state # c.relays[name].state
             THEN relay_callback(c1, "cb", name, state)
             ELSE c1

\* _set_relay that takes the change back when the callback raises
set_relay_RollbackOnRaise(c, name, state, force) ==
    IF c.exc \/ state = None THEN c
    ELSE LET res == RelayState_set(c.relays[name], state, force, now)
             c1 == [c EXCEPT !.relays[name] = res.relay,
                             !.log = Append(@, SetRec(name, state, force,
                                                      c.relays[name], res.changed))]
             c2 == relay_callback(c1, "cb", name, state)
         IN  IF ~res.changed THEN c1
             ELSE IF c2.exc THEN [c2 EXCEPT !.relays[name] = c.relays[name]]
             ELSE c2

\* AutomationController._set_relay
set_relay(c, name, state, force) ==
    IF c.exc \/ state = None THEN c
    ELSE LET res == RelayState_set(c.relays[name], state, force, now)
             c1 == [c EXCEPT !.relays[name] = res.relay,
                             !.log = Append(@, SetRec(name, state, force,
                                                      c.relays[name], res.changed))]
         IN  IF res.changed THEN relay_callback(c1, "cb", name, state) ELSE c1

\* datetime.now().hour of the wall clock t
Hour(t) == (t \div 3600) % 24

\* AutomationController._is_daytime
is_daytime == LIGHTS_ON_HOUR <= Hour(now) /\ Hour(now) < LIGHTS_OFF_HOUR

\* an assignment to a field of the controller, skipped once the callback has raised
Put(c, field, value) == IF c.exc THEN c ELSE [c EXCEPT ![field] = value]

(***************************************************************************)
(* Rule engine                                                             *)
(***************************************************************************)
\* _process_misting that starts a new OFF interval when it finds the state unknown
process_misting_StampsOnInit(c) ==
    LET st == c.relays["MISTING"].state
    IN  IF c.exc THEN c
        ELSE IF st = None
        THEN Put(set_relay(c, "MISTING", False, TRUE), "misting_last_off", now)
        ELSE IF st = True
        THEN IF now - c.misting_last_on >= MISTING_ON
             THEN Put(set_relay(c, "MISTING", False, TRUE), "misting_last_off", now)
             ELSE c
        ELSE IF now - c.misting_last_off >= MISTING_OFF
             THEN Put(set_relay(c, "MISTING", True, TRUE), "misting_last_on", now)
             ELSE c

\* _process_misting that ends the ON pulse only after more than MISTING_ON
process_misting_LatePulseEnd(c) ==
    LET st == c.relays["MISTING"].state
    IN  IF c.exc THEN c
        ELSE IF st = None THEN set_relay(c, "MISTING", False, TRUE)
        ELSE IF st = True
        THEN IF now - c.misting_last_on > MISTING_ON
             THEN Put(set_relay(c, "MISTING", False, TRUE), "misting_last_off", now)
             ELSE c
        ELSE IF now - c.misting_last_off >= MISTING_OFF
             THEN Put(set_relay(c, "MISTING", True, TRUE), "misting_last_on", now)
             ELSE c

\* AutomationController._process_misting
process_misting(c) ==
    LET st == c.relays["MISTING"].state
    IN  IF c.exc THEN c
        ELSE IF st = None THEN set_relay(c, "MISTING", False, TRUE)
        ELSE IF st = True
        THEN IF now - c.misting_last_on >= MISTING_ON
             THEN Put(set_relay(c, "MISTING", False, TRUE), "misting_last_off", now)
             ELSE c
        ELSE IF now - c.misting_last_off >= MISTING_OFF
             THEN Put(set_relay(c, "MISTING", True, TRUE), "misting_last_on", now)
             ELSE c

\* the air pump rule without its fast_ready gate
air_pump_rule_NoGate(c) ==
    LET do == c.vals["do"]
    IN  IF c.exc THEN c
        ELSE IF Lt(do, DO_LOW) THEN set_relay(c, "AIR_PUMP", True, FALSE)
        ELSE IF Ge(do, DO_HIGH) THEN set_relay(c, "AIR_PUMP", False, FALSE)
        ELSE c

\* _process_automation, rule 2: air pump
air_pump_rule(c) ==
    LET do == c.vals["do"]
    IN  IF c.exc \/ ~fast_ready(filters["do"]) THEN c
        ELSE IF Lt(do, DO_LOW) THEN set_relay(c, "AIR_PUMP", True, FALSE)
        ELSE IF Ge(do, DO_HIGH) THEN set_relay(c, "AIR_PUMP", False, FALSE)
        ELSE c

\* the state the exhaust rule requests, given the current EXHAUST_IN state
exhaust_needed(vals, state) ==
    LET temp == vals["temperature"]
        humidity == vals["humidity"]
        high == IF is_daytime THEN TEMP_DAY_HIGH ELSE TEMP_NIGHT_HIGH
        low == IF is_daytime THEN TEMP_DAY_LOW ELSE TEMP_NIGHT_LOW
        seed == Truthy(state)
        by_temp == IF ready(filters["temperature"])
                   THEN IF Gt(temp, high) THEN TRUE
                        ELSE IF Le(temp, low) THEN FALSE
                        ELSE seed
                   ELSE seed
    IN  IF ready(filters["humidity"]) /\ Gt(humidity, HUMIDITY_HIGH) THEN TRUE
        ELSE by_temp

\* _process_automation, rules 3 and 4: exhaust pair
exhaust_rule(c) ==
    IF c.exc \/ ~(ready(filters["temperature"]) \/ ready(filters["humidity"])) THEN c
    ELSE LET needed == PyBool(exhaust_needed(c.vals, c.relays["EXHAUST_IN"].state))
         IN  set_relay(set_relay(c, "EXHAUST_IN", needed, FALSE),
                       "EXHAUST_OUT", needed, FALSE)

\* _process_automation, rules 5 and 6: grow lights
lights_rule(c) ==
    set_relay(set_relay(c, "GROW_LIGHTS_AERO", PyBool(is_daytime), FALSE),
              "GROW_LIGHTS_DWC", PyBool(is_daytime), FALSE)

\* _process_automation, rule 7: pH up
ph_up_rule(c) ==
    LET ph == c.vals["ph"]
        st == c.relays["PH_UP"].state
    IN  IF c.exc \/ ~ready(filters["ph"]) THEN c
        ELSE IF Lt(ph, PH_LOW) /\ now > c.ph_dosing_until
        THEN Put(set_relay(c, "PH_UP", True, FALSE), "ph_dosing_until", now + PH_DOSE_TIME)
        ELSE IF Truthy(st) /\ now >= c.ph_dosing_until
        THEN Put(set_relay(c, "PH_UP", False, FALSE), "ph_dosing_until", now + PH_COOLDOWN)
        ELSE IF ~Truthy(st) /\ now >= c.ph_dosing_until
        THEN set_relay(c, "PH_UP", False, FALSE)
        ELSE c

\* _process_automation, rule 8: pH down
ph_down_rule(c) ==
    LET ph == c.vals["ph"]
        st == c.relays["PH_DOWN"].state
    IN  IF c.exc \/ ~ready(filters["ph"]) THEN c
        ELSE IF Gt(ph, PH_HIGH) /\ now > c.ph_dosing_until
        THEN Put(set_relay(c, "PH_DOWN", True, FALSE), "ph_dosing_until", now + PH_DOSE_TIME)
        ELSE IF Truthy(st) /\ now >= c.ph_dosing_until
        THEN Put(set_relay(c, "PH_DOWN", False, FALSE), "ph_dosing_until", now + PH_COOLDOWN)
        ELSE IF ~Truthy(st) /\ now >= c.ph_dosing_until
        THEN set_relay(c, "PH_DOWN", False, FALSE)
        ELSE c

\* _process_tds_dosing, the ON/OFF pulse of an active dosing
tds_pulse(c) ==
    IF c.exc \/ ~c.tds_dosing_active THEN c
    ELSE IF Truthy(c.relays["LEAFY_GREEN"].state)
    THEN IF now - c.tds_dose_last_on >= TDS_DOSE_ON
         THEN Put(set_relay(c, "LEAFY_GREEN", False, TRUE), "tds_dose_last_off", now)
         ELSE c
    ELSE IF now - c.tds_dose_last_off >= TDS_DOSE_OFF
         THEN Put(set_relay(c, "LEAFY_GREEN", True, TRUE), "tds_dose_last_on", now)
         ELSE c

\* _process_tds_dosing that clears the flag at TDS_HIGH without switching the valve
process_tds_dosing_NoForceOff(c) ==
    LET tds == c.vals["tds"]
        c1 == IF c.relays["LEAFY_GREEN"].state = None
              THEN set_relay(c, "LEAFY_GREEN", False, TRUE)
              ELSE c
    IN  IF c.exc THEN c
        ELSE IF Lt(tds, TDS_LOW) THEN tds_pulse(Put(c1, "tds_dosing_active", TRUE))
        ELSE IF Ge(tds, TDS_HIGH) THEN Put(c1, "tds_dosing_active", FALSE)
        ELSE tds_pulse(c1)

\* AutomationController._process_tds_dosing
process_tds_dosing(c) ==
    LET tds == c.vals["tds"]
        c1 == IF c.relays["LEAFY_GREEN"].state = None
              THEN set_relay(c, "LEAFY_GREEN", False, TRUE)
              ELSE c
        off == Put(c1, "tds_dosing_active", FALSE)
    IN  IF c.exc THEN c
        ELSE IF Lt(tds, TDS_LOW) THEN tds_pulse(Put(c1, "tds_dosing_active", TRUE))
        ELSE IF Ge(tds, TDS_HIGH)
        THEN IF Truthy(off.relays["LEAFY_GREEN"].state)
             THEN set_relay(off, "LEAFY_GREEN", False, TRUE)
             ELSE off
        ELSE tds_pulse(c1)

\* _process_automation, rule 9: nutrient dosing
tds_rule(c) == IF c.exc \/ ~ready(filters["tds"]) THEN c ELSE process_tds_dosing(c)

\* AutomationController._process_automation
process_automation(c) ==
    tds_rule(ph_down_rule(ph_up_rule(lights_rule(exhaust_rule(air_pump_rule(
        process_misting(c)))))))

\* iteration order of self.relays (the order of RELAY)
RelayOrder == <<"LEAFY_GREEN", "PH_DOWN", "PH_UP", "MISTING", "EXHAUST_OUT",
                "GROW_LIGHTS_AERO", "AIR_PUMP", "GROW_LIGHTS_DWC", "EXHAUST_IN">>

RECURSIVE enforce_from(_, _)
enforce_from(c, i) ==
    IF c.exc \/ i > Len(RelayOrder) THEN c
    ELSE LET name == RelayOrder[i]
             st == c.relays[name].state
         IN  enforce_from(IF st # None THEN relay_callback(c, "enforce", name, st) ELSE c,
                          i + 1)

\* _enforce_relay_states with twice the interval
enforce_relay_states_Slow(c) ==
    IF c.exc \/ now - c.last_enforce < 2 * ENFORCE_INTERVAL THEN c
    ELSE enforce_from([c EXCEPT !.last_enforce = now], 1)

\* AutomationController._enforce_relay_states
enforce_relay_states(c) ==
    IF c.exc \/ now - c.last_enforce < ENFORCE_INTERVAL THEN c
    ELSE enforce_from([c EXCEPT !.last_enforce = now], 1)

\* a loop body that does not test override_mode
loop_body_IgnoresOverride(c) == enforce_relay_states(process_automation(c))

\* a loop body that enforces in every mode
loop_body_EnforcesInOverride(c) ==
    IF ~override_mode THEN enforce_relay_states(process_automation(c))
    ELSE enforce_relay_states(c)

\* the body of one iteration of AutomationController._loop
loop_body(c) ==
    IF ~override_mode THEN enforce_relay_states(process_automation(c)) ELSE c

\* _loop whose body is not inside try/except: an exception leaves the loop
loop_try_NoExcept(c) == loop_body(c)

\* _loop, lines 245-250: the body inside try / except Exception; the exception is
\* handled there and none is pending when the iteration goes on to sleep(1)
loop_try(c) == [loop_body(c) EXCEPT !.exc = FALSE]

\* set_override that marks the relays unknown and leaves the rule pass to the loop
set_override_NoImmediatePass(c, was_override, override) ==
    IF was_override /\ ~override
    THEN [c EXCEPT !.relays = [n \in RelayNames |-> [state |-> None, last_change |-> 0]]]
    ELSE c

\* set_override that resynchronizes on every call with override false
set_override_ResyncOnEveryClear(c, was_override, override) ==
    IF ~override
    THEN process_automation(
             [c EXCEPT !.relays = [n \in RelayNames |-> [state |-> None, last_change |-> 0]]])
    ELSE c

\* AutomationController.set_override; the caller stores the flag in override_mode
set_override(c, was_override, override) ==
    IF was_override /\ ~override
    THEN process_automation(
             [c EXCEPT !.relays = [n \in RelayNames |-> [state |-> None, last_change |-> 0]]])
    ELSE c

\* AutomationController.update_sensors
SensorKey == [temperature |-> "temperature_c", humidity |-> "humidity", ph |-> "ph",
              do |-> "do_mg_l", tds |-> "tds_ppm"]

\* update_sensors that has no branch for tds_ppm
update_sensors_IgnoresTds(fs, readings) ==
    [f \in FilterNames |->
        IF f # "tds" /\ SensorKey[f] \in DOMAIN readings
        THEN add(fs[f], readings[SensorKey[f]])
        ELSE fs[f]]

update_sensors(fs, readings) ==
    [f \in FilterNames |->
        IF SensorKey[f] \in DOMAIN readings THEN add(fs[f], readings[SensorKey[f]])
        ELSE fs[f]]

\* p / q rounded to the nearest integer, a tie to the even one (p >= 0, q > 0)
RoundHalfEven(p, q) ==
    LET f == p \div q
        r2 == 2 * (p - f * q)
    IN  IF r2 < q THEN f
        ELSE IF r2 > q THEN f + 1
        ELSE IF f % 2 = 0 THEN f ELSE f + 1

\* fixed-point steps per physical unit of each filter
Scale == [temperature |-> 10, humidity |-> 10, ph |-> 10, do |-> 10, tds |-> 1]

\* round(self.filters[f].get(), 2), in hundredths of the physical unit
round2(f, m) == RoundHalfEven(100 * m.num, Scale[f] * m.den)

\* get_status that reports bool(relay.state)
get_status_UnknownAsOff ==
    [enabled |-> TRUE,
     override_mode |-> override_mode,
     is_daytime |-> is_daytime,
     filtered_values |-> [f \in FilterNames |-> round2(f, get(filters[f]))],
     relay_states |-> [n \in RelayNames |-> PyBool(Truthy(relays[n].state))],
     thresholds |-> [do |-> [low |-> DO_LOW, high |-> DO_HIGH],
                     temp_day |-> [high |-> TEMP_DAY_HIGH, low |-> TEMP_DAY_LOW],
                     temp_night |-> [high |-> TEMP_NIGHT_HIGH, low |-> TEMP_NIGHT_LOW],
                     humidity |-> [high |-> HUMIDITY_HIGH, low |-> HUMIDITY_LOW],
                     ph |-> [low |-> PH_LOW, high |-> PH_HIGH],
                     tds |-> [low |-> TDS_LOW, high |-> TDS_HIGH]]]

\* AutomationController.get_status: the returned dictionary
get_status ==
    [enabled |-> TRUE,
     override_mode |-> override_mode,
     is_daytime |-> is_daytime,
     filtered_values |-> [f \in FilterNames |-> round2(f, get(filters[f]))],
     relay_states |-> [n \in RelayNames |-> relays[n].state],
     thresholds |-> [do |-> [low |-> DO_LOW, high |-> DO_HIGH],
                     temp_day |-> [high |-> TEMP_DAY_HIGH, low |-> TEMP_DAY_LOW],
                     temp_night |-> [high |-> TEMP_NIGHT_HIGH, low |-> TEMP_NIGHT_LOW],
                     humidity |-> [high |-> HUMIDITY_HIGH, low |-> HUMIDITY_LOW],
                     ph |-> [low |-> PH_LOW, high |-> PH_HIGH],
                     tds |-> [low |-> TDS_LOW, high |-> TDS_HIGH]]]

(***************************************************************************)
(* Inputs                                                                  *)
(***************************************************************************)
\* wall-clock instants at which the controller is constructed:
\* 05:59:55 (the hour turns to 6 within the horizon) and 12:00:00, on day 1
BootTimes == {86400 + 6 * 3600 - 5, 86400 + 12 * 3600}

\* readings the sensor feed supplies.  Every value is a multiple of 0.5, which
\* binary floating point holds exactly, so that sums, means and the outlier
\* test of the code come out as in the exact arithmetic used here
ReadingsLow == [temperature_c |-> 180, humidity |-> 600, ph |-> 50,
                do_mg_l |-> 65, tds_ppm |-> 600]
ReadingsHigh == [temperature_c |-> 270, humidity |-> 750, ph |-> 75,
                 do_mg_l |-> 90, tds_ppm |-> 810]
ReadingsPhZero == [ph |-> 0]
Readings == {ReadingsLow, ReadingsHigh, ReadingsPhZero}

(***************************************************************************)
(* State machine                                                           *)
(***************************************************************************)
\* the loop thread is not inside SensorFilter.get
NoSnap == [at |-> "idle", f |-> "none", sum |-> 0,
           vals |-> [g \in FilterNames |-> get(<<>>)],
           before |-> get(<<>>), got |-> get(<<>>), after |-> get(<<>>)]

\* the filters after update_sensors(readings) has been called k times
RECURSIVE Fed(_, _, _)
Fed(fs, readings, k) ==
    IF k = 0 THEN fs ELSE Fed(update_sensors(fs, readings), readings, k - 1)

\* AutomationController.__init__ and the module state of api.py, with the
\* filters as the feed has left them when start() launches the loop
Constructed(fs, stopped) ==
    /\ now = boot
    /\ wake = boot
    /\ stop_event = stopped
    /\ filters = fs
    /\ relays = [n \in RelayNames |-> RelayState_init]
    /\ override_mode = FALSE
    /\ misting_last_on = 0
    /\ misting_last_off = 0
    /\ tds_dosing_active = FALSE
    /\ tds_dose_last_on = 0
    /\ tds_dose_last_off = 0
    /\ ph_dosing_until = 0
    /\ last_enforce = 0
    /\ RELAY_STATES = [i \in 1..9 |-> False]
    /\ OVERRIDE_MODE_ENABLED = FALSE
    /\ CALIBRATION_MODE_ENABLED = FALSE
    /\ op = "init"
    /\ log = <<>>
    /\ thread_alive = ~stopped
    /\ pc = 0
    /\ snap = NoSnap
    /\ accepted = 0

EmptyFilters == [f \in FilterNames |-> <<>>]

\* the feed has supplied no reading, or WarmUp equal ones, before the loop starts
Init ==
    /\ boot \in BootTimes
    /\ events = MaxEvents
    /\ \E readings \in Readings, k \in {0, WarmUp} :
           Constructed(Fed(EmptyFilters, readings, k), FALSE)

\* the loop starts at noon on warmed-up filters; one more external event is explored
InitWarm ==
    /\ boot = 86400 + 12 * 3600
    /\ events = MaxEvents + 1
    /\ \E readings \in Readings : Constructed(Fed(EmptyFilters, readings, WarmUp), FALSE)

\* the controller fields and the mirror after a handler that ended in c
Commit(c) ==
    /\ relays' = c.relays
    /\ misting_last_on' = c.misting_last_on
    /\ misting_last_off' = c.misting_last_off
    /\ tds_dosing_active' = c.tds_dosing_active
    /\ tds_dose_last_on' = c.tds_dose_last_on
    /\ tds_dose_last_off' = c.tds_dose_last_off
    /\ ph_dosing_until' = c.ph_dosing_until
    /\ last_enforce' = c.last_enforce
    /\ RELAY_STATES' = c.RELAY_STATES
    /\ log' = c.log

\* a driver failure is one of the external events explored
Raises(c, used) ==
    /\ events >= used + (IF c.exc THEN 1 ELSE 0)
    /\ events' = events - used - (IF c.exc THEN 1 ELSE 0)

\* the wall clock advances by one second.  The loop starts its tick when its
\* sleep ends; a tick delayed past that instant (by at most MaxLate) is one of
\* the external events explored.  A get() or a set_override in progress ends
\* within the second in which it began
Advance ==
    /\ now < boot + Horizon
    /\ snap.at # "summed"
    /\ pc = 0
    /\ now' = now + 1
    /\ IF thread_alive /\ ~stop_event /\ now >= wake
       THEN /\ now < wake + MaxLate
            /\ events > 0
            /\ events' = events - 1
       ELSE events' = events
    /\ UNCHANGED <<boot, wake, stop_event, filters, relays, override_mode,
                   misting_last_on, misting_last_off, tds_dosing_active,
                   tds_dose_last_on, tds_dose_last_off, ph_dosing_until, last_enforce,
                   RELAY_STATES, OVERRIDE_MODE_ENABLED, CALIBRATION_MODE_ENABLED,
                   op, log, thread_alive, pc, snap, accepted>>

\* an iteration of a loop whose while condition does not test the stop event
Tick_IgnoresStop(fail) ==
    /\ thread_alive
    /\ now >= wake
    /\ snap.at # "summed"
    /\ Raises(loop_body(Self(fail)), 0)
    /\ Commit(loop_try(Self(fail)))
    /\ thread_alive' = ~loop_try(Self(fail)).exc
    /\ wake' = IF loop_try(Self(fail)).exc THEN wake ELSE now + 1
    /\ op' = "loop"
    /\ UNCHANGED <<now, boot, stop_event, filters, override_mode,
                   OVERRIDE_MODE_ENABLED, CALIBRATION_MODE_ENABLED, pc, snap, accepted>>

\* one iteration of AutomationController._loop: the body inside its try/except,
\* then sleep(1); an exception that left the try statement would end the thread
Tick(fail) ==
    /\ thread_alive
    /\ ~stop_event
    /\ now >= wake
    /\ snap.at # "summed"
    /\ Raises(loop_body(Self(fail)), 0)
    /\ Commit(loop_try(Self(fail)))
    /\ thread_alive' = ~loop_try(Self(fail)).exc
    /\ wake' = IF loop_try(Self(fail)).exc THEN wake ELSE now + 1
    /\ op' = "loop"
    /\ UNCHANGED <<now, boot, stop_event, filters, override_mode,
                   OVERRIDE_MODE_ENABLED, CALIBRATION_MODE_ENABLED, pc, snap, accepted>>

\* _loop, line 244: the loop finds the stop event set when its sleep has ended,
\* and the thread ends
LoopExit ==
    /\ thread_alive
    /\ stop_event
    /\ now >= wake
    /\ snap.at # "summed"
    /\ thread_alive' = FALSE
    /\ UNCHANGED <<now, boot, wake, stop_event, filters, relays, override_mode,
                   misting_last_on, misting_last_off, tds_dosing_active,
                   tds_dose_last_on, tds_dose_last_off, ph_dosing_until, last_enforce,
                   RELAY_STATES, OVERRIDE_MODE_ENABLED, CALIBRATION_MODE_ENABLED,
                   events, op, log, pc, snap, accepted>>

\* api.update_sensors feeding AutomationController.update_sensors
UpdateSensors(readings) ==
    /\ events > 0
    /\ events' = events - 1
    /\ filters' = update_sensors(filters, readings)
    /\ UNCHANGED <<now, boot, wake, stop_event, relays, override_mode,
                   misting_last_on, misting_last_off, tds_dosing_active,
                   tds_dose_last_on, tds_dose_last_off, ph_dosing_until, last_enforce,
                   RELAY_STATES, OVERRIDE_MODE_ENABLED, CALIBRATION_MODE_ENABLED,
                   op, log, thread_alive, pc, snap, accepted>>

\* api.set_override_mode: POST /api/override-mode
SetOverrideMode(enabled, fail) ==
    LET c == set_override([Self(fail) EXCEPT !.OVERRIDE_MODE_ENABLED = enabled,
                                            !.RELAY_STATES = [i \in 1..9 |-> False]],
                          override_mode, enabled)
    IN  /\ pc = 0
        /\ Raises(c, 1)
        /\ OVERRIDE_MODE_ENABLED' = enabled
        /\ override_mode' = enabled
        /\ Commit(c)
        /\ op' = IF override_mode /\ ~enabled THEN "override_exit" ELSE "set_override"
        /\ UNCHANGED <<now, boot, wake, stop_event, filters, CALIBRATION_MODE_ENABLED,
                       thread_alive, pc, snap, accepted>>

\* api.set_calibration_mode: POST /api/calibration-mode
SetCalibrationMode(enabled) ==
    /\ events > 0
    /\ events' = events - 1
    /\ CALIBRATION_MODE_ENABLED' = enabled
    /\ UNCHANGED <<now, boot, wake, stop_event, filters, relays, override_mode,
                   misting_last_on, misting_last_off, tds_dosing_active,
                   tds_dose_last_on, tds_dose_last_off, ph_dosing_until, last_enforce,
                   RELAY_STATES, OVERRIDE_MODE_ENABLED, op, log,
                   thread_alive, pc, snap, accepted>>

\* AutomationController.stop
Stop ==
    /\ ~stop_event
    /\ stop_event' = TRUE
    /\ events > 0
    /\ events' = events - 1
    /\ UNCHANGED <<now, boot, wake, filters, relays, override_mode,
                   misting_last_on, misting_last_off, tds_dosing_active,
                   tds_dose_last_on, tds_dose_last_off, ph_dosing_until, last_enforce,
                   RELAY_STATES, OVERRIDE_MODE_ENABLED, CALIBRATION_MODE_ENABLED,
                   op, log, thread_alive, pc, snap, accepted>>

Next ==
    \/ Advance
    \/ \E fail \in 0..MaxFail : Tick(fail)
    \/ \E readings \in Readings : UpdateSensors(readings)
    \/ \E enabled \in BOOLEAN, fail \in 0..MaxFail : SetOverrideMode(enabled, fail)
    \/ \E enabled \in BOOLEAN : SetCalibrationMode(enabled)
    \/ Stop
    \/ LoopExit

Spec == Init /\ [][Next]_vars

SpecWarm == InitWarm /\ [][Next]_vars

\* the guard of Tick: the loop thread is alive, not stopped, and its sleep has ended
TickDue == thread_alive /\ ~stop_event /\ now >= wake /\ snap.at # "summed"

\* the wall clock keeps running, and the loop thread gets to run whenever its
\* sleep has ended: an iteration that is due does not stay due for ever (weak
\* fairness of Tick, which is enabled exactly when TickDue holds and always ends
\* in a state where it does not)
SpecLive ==
    /\ Init /\ [][Next]_vars
    /\ WF_vars(Advance)
    /\ []<>~TickDue

(***************************************************************************)
(* Interleavings.  The controller takes no lock: set_override runs on the  *)
(* request thread and update_sensors on the ingestion thread while the     *)
(* loop thread iterates.  set_override is taken statement by statement,    *)
(* and SensorFilter.get, "sum(self.values) / len(self.values)", in its two *)
(* calls, between which the interpreter may switch threads.                *)
(***************************************************************************)
\* the order in which _process_automation reads the filters (lines 271-275)
FilterOrder == <<"temperature", "humidity", "ph", "do", "tds">>
Pos(f) == CHOOSE i \in DOMAIN FilterOrder : FilterOrder[i] = f

InitRace ==
    /\ boot = 86400 + 12 * 3600
    /\ events = MaxEvents
    /\ \E readings \in Readings : Constructed(Fed(EmptyFilters, readings, WarmUp), FALSE)

\* the loop thread has entered _process_automation (override_mode was false at
\* line 246) and, in get() of filter f, has evaluated sum(self.values); the
\* filters before f have been read.  A thread switch at this point is one of
\* the external events explored
GetBegin(f) ==
    /\ TickDue
    /\ ~override_mode
    /\ filters[f] # <<>>
    /\ events > 0
    /\ events' = events - 1
    /\ snap' = [at |-> "summed", f |-> f, sum |-> Sum(filters[f]),
                vals |-> [g \in FilterNames |-> get(filters[g])],
                before |-> get(filters[f]), got |-> get(<<>>), after |-> get(<<>>)]
    /\ UNCHANGED <<now, boot, wake, stop_event, filters, relays, override_mode,
                   misting_last_on, misting_last_off, tds_dosing_active,
                   tds_dose_last_on, tds_dose_last_off, ph_dosing_until, last_enforce,
                   RELAY_STATES, OVERRIDE_MODE_ENABLED, CALIBRATION_MODE_ENABLED,
                   op, log, thread_alive, pc, accepted>>

\* the filtered values of an iteration whose get() of snap.f was interrupted:
\* the filters read before it as they were, snap.f as the old sum over the
\* present length, the others as they are now
ValsAfterGet ==
    [g \in FilterNames |->
        IF Pos(g) < Pos(snap.f) THEN snap.vals[g]
        ELSE IF g = snap.f THEN [num |-> snap.sum, den |-> Len(filters[g])]
        ELSE get(filters[g])]

\* get() evaluates len(self.values) and returns; the iteration then reads the
\* remaining filters, runs its rule pass and enforcement, and sleeps
TickAfterGet(fail) ==
    LET c == enforce_relay_states(process_automation(
                 [Self(fail) EXCEPT !.vals = ValsAfterGet]))
    IN  /\ snap.at = "summed"
        /\ Raises(c, 0)
        /\ Commit(c)
        /\ wake' = now + 1
        /\ op' = "loop"
        /\ snap' = [NoSnap EXCEPT !.at = "returned", !.f = snap.f,
                                  !.before = snap.before,
                                  !.got = ValsAfterGet[snap.f],
                                  !.after = get(filters[snap.f])]
        /\ UNCHANGED <<now, boot, stop_event, filters, override_mode,
                       OVERRIDE_MODE_ENABLED, CALIBRATION_MODE_ENABLED,
                       thread_alive, pc, accepted>>

\* api.set_override_mode up to set_override line 199: the flags are stored and
\* the mirror is zeroed; on an exit from override the resets are still to come
OverrideBegin(enabled) ==
    /\ pc = 0
    /\ events > 0
    /\ events' = events - 1
    /\ OVERRIDE_MODE_ENABLED' = enabled
    /\ RELAY_STATES' = [i \in 1..9 |-> False]
    /\ override_mode' = enabled
    /\ pc' = IF override_mode /\ ~enabled THEN 1 ELSE 0
    /\ op' = "set_override"
    /\ log' = <<>>
    /\ UNCHANGED <<now, boot, wake, stop_event, filters, relays,
                   misting_last_on, misting_last_off, tds_dosing_active,
                   tds_dose_last_on, tds_dose_last_off, ph_dosing_until, last_enforce,
                   CALIBRATION_MODE_ENABLED, thread_alive, snap, accepted>>

\* set_override lines 207-209, one relay per step
OverrideReset ==
    /\ pc \in 1..Len(RelayOrder)
    /\ relays' = [relays EXCEPT ![RelayOrder[pc]] = [state |-> None, last_change |-> 0]]
    /\ pc' = pc + 1
    /\ UNCHANGED <<now, boot, wake, stop_event, filters, override_mode,
                   misting_last_on, misting_last_off, tds_dosing_active,
                   tds_dose_last_on, tds_dose_last_off, ph_dosing_until, last_enforce,
                   RELAY_STATES, OVERRIDE_MODE_ENABLED, CALIBRATION_MODE_ENABLED,
                   events, op, log, thread_alive, snap, accepted>>

\* set_override line 210: the rule pass on the request thread
OverridePass(fail) ==
    LET c == process_automation(Self(fail))
    IN  /\ pc = Len(RelayOrder) + 1
        /\ snap.at # "summed"
        /\ Raises(c, 0)
        /\ Commit(c)
        /\ pc' = 0
        /\ op' = "override_exit"
        /\ UNCHANGED <<now, boot, wake, stop_event, filters, override_mode,
                       OVERRIDE_MODE_ENABLED, CALIBRATION_MODE_ENABLED,
                       thread_alive, snap, accepted>>

NextRace ==
    \/ Advance
    \/ \E fail \in 0..MaxFail : Tick(fail)
    \/ \E f \in FilterNames : GetBegin(f)
    \/ \E fail \in 0..MaxFail : TickAfterGet(fail)
    \/ \E readings \in Readings : UpdateSensors(readings)
    \/ \E enabled \in BOOLEAN : OverrideBegin(enabled)
    \/ OverrideReset
    \/ \E fail \in 0..MaxFail : OverridePass(fail)

SpecRace == InitRace /\ [][NextRace]_vars

(***************************************************************************)
(* Enforcement interleaved with set_override.  _enforce_relay_states reads *)
(* relay.state twice for each relay, in the test of line 263 and in the    *)
(* argument list of line 264; set_override on the request thread assigns   *)
(* relay.state in between when the threads switch there.                   *)
(***************************************************************************)
\* the position of relay name in the iteration order of self.relays
RelayPos(name) == CHOOSE i \in DOMAIN RelayOrder : RelayOrder[i] = name

\* _enforce_relay_states, the iterations for the relays at positions i .. k-1
RECURSIVE enforce_between(_, _, _)
enforce_between(c, i, k) ==
    IF c.exc \/ i >= k THEN c
    ELSE LET name == RelayOrder[i]
             st == c.relays[name].state
         IN  enforce_between(IF st # None THEN relay_callback(c, "enforce", name, st)
                                          ELSE c,
                             i + 1, k)

\* an iteration of the loop that has run its rule pass, has begun a due
\* enforcement, and for the relay at position k has found relay.state known in
\* the test of line 263; the thread is switched before line 264
EnforceBegin(k) ==
    LET c0 == process_automation(Self(0))
        c == enforce_between([c0 EXCEPT !.last_enforce = now], 1, k)
    IN  /\ TickDue
        /\ snap.at = "idle"
        /\ ~override_mode
        /\ now - last_enforce >= ENFORCE_INTERVAL
        /\ c.relays[RelayOrder[k]].state # None
        /\ Commit(c)
        /\ snap' = [NoSnap EXCEPT !.at = "tested", !.f = RelayOrder[k]]
        /\ op' = "loop"
        /\ UNCHANGED <<now, boot, wake, stop_event, filters, override_mode,
                       OVERRIDE_MODE_ENABLED, CALIBRATION_MODE_ENABLED, events,
                       thread_alive, pc, accepted>>

\* line 264 for that relay, with relay.state as it is now, then the remaining
\* relays; the iteration ends in sleep(1)
EnforceEnd(fail) ==
    LET name == snap.f
        c1 == relay_callback(Self(fail), "enforce", name, relays[name].state)
        c == enforce_from(c1, RelayPos(name) + 1)
    IN  /\ snap.at = "tested"
        /\ Raises(c, 0)
        /\ Commit(c)
        /\ wake' = now + 1
        /\ op' = "loop"
        /\ snap' = NoSnap
        /\ UNCHANGED <<now, boot, stop_event, filters, override_mode,
                       OVERRIDE_MODE_ENABLED, CALIBRATION_MODE_ENABLED,
                       thread_alive, pc, accepted>>

\* an iteration of the loop that runs without a thread switch
TickWhole(fail) == snap.at = "idle" /\ Tick(fail)

NextEnforce ==
    \/ Advance
    \/ \E fail \in 0..MaxFail : TickWhole(fail)
    \/ \E k \in DOMAIN RelayOrder : EnforceBegin(k)
    \/ \E fail \in 0..MaxFail : EnforceEnd(fail)
    \/ \E enabled \in BOOLEAN : OverrideBegin(enabled)
    \/ OverrideReset
    \/ \E fail \in 0..MaxFail : OverridePass(fail)

SpecEnforce == InitRace /\ [][NextEnforce]_vars

(***************************************************************************)
(* The loop started five seconds before the lights-on hour on filters      *)
(* warmed up with a temperature between the night and the day thresholds   *)
(* (22.5: above TEMP_NIGHT_HIGH, not above TEMP_DAY_LOW), a DO inside its  *)
(* band and a TDS below TDS_LOW.  The feed may also supply one TDS reading *)
(* high enough to lift the filtered TDS over TDS_HIGH at once.  Any one of *)
(* the first MaxFailDawn callback invocations of a handler may raise.      *)
(***************************************************************************)
MaxFailDawn == 2

ReadingsDawn == [temperature_c |-> 225, humidity |-> 600, ph |-> 65,
                 do_mg_l |-> 80, tds_ppm |-> 600]
ReadingsFlush == [tds_ppm |-> 2000]

InitDawn ==
    /\ boot = 86400 + 6 * 3600 - 5
    /\ events = MaxEvents
    /\ Constructed(Fed(EmptyFilters, ReadingsDawn, WarmUp), FALSE)

NextDawn ==
    \/ Advance
    \/ \E fail \in 0..MaxFailDawn : Tick(fail)
    \/ \E readings \in Readings \cup {ReadingsFlush} : UpdateSensors(readings)
    \/ \E enabled \in BOOLEAN, fail \in 0..MaxFailDawn : SetOverrideMode(enabled, fail)
    \/ \E enabled \in BOOLEAN : SetCalibrationMode(enabled)
    \/ Stop
    \/ LoopExit

SpecDawn == InitDawn /\ [][NextDawn]_vars

(***************************************************************************)
(* A driver outage: the loop runs at noon on filters warmed up with a low  *)
(* DO (6.5), and the callback may raise in any iteration, up to MaxOutage  *)
(* times.  The clock and the loop thread are scheduled fairly.             *)
(***************************************************************************)
MaxOutage == 7

InitOutage ==
    /\ boot = 86400 + 12 * 3600
    /\ events = MaxOutage
    /\ Constructed(Fed(EmptyFilters, ReadingsLow, WarmUp), FALSE)

NextOutage ==
    \/ Advance
    \/ \E fail \in 0..MaxFail : Tick(fail)

SpecOutage ==
    /\ InitOutage /\ [][NextOutage]_vars
    /\ WF_vars(Advance)
    /\ []<>~TickDue

(***************************************************************************)
(* stop() called while the loop runs, also while an iteration is in        *)
(* progress (the loop thread inside get()).  The wall clock keeps running, *)
(* the loop thread gets to run: an iteration that is due or in progress    *)
(* does not stay so for ever, and the loop leaves its while statement when *)
(* it finds the stop event set.                                            *)
(***************************************************************************)
NextStop ==
    \/ Advance
    \/ \E fail \in 0..MaxFail : Tick(fail)
    \/ \E f \in FilterNames : GetBegin(f)
    \/ \E fail \in 0..MaxFail : TickAfterGet(fail)
    \/ \E readings \in Readings : UpdateSensors(readings)
    \/ Stop
    \/ LoopExit

SpecStop ==
    /\ InitRace /\ [][NextStop]_vars
    /\ WF_vars(Advance)
    /\ WF_vars(LoopExit)
    /\ []<>~TickDue
    /\ []<>(snap.at # "summed")

(***************************************************************************)
(* One RelayState object driven directly: any set() call at any instant,   *)
(* and the reset to unknown that set_override applies to each relay.  The  *)
(* loop is not running (stop() was called on the constructed controller).  *)
(***************************************************************************)
TestRelays == {"AIR_PUMP"}

InitRelay ==
    /\ boot \in BootTimes
    /\ events = 0
    /\ Constructed(EmptyFilters, TRUE)

\* relay.set(state, force) called on self.relays[name]
SetCall(name, state, force) ==
    LET res == RelayState_set(relays[name], state, force, now)
    IN  /\ relays' = [relays EXCEPT ![name] = res.relay]
        /\ log' = <<SetRec(name, state, force, relays[name], res.changed)>>
        /\ op' = "set"
        /\ UNCHANGED <<now, boot, wake, stop_event, filters, override_mode,
                       misting_last_on, misting_last_off, tds_dosing_active,
                       tds_dose_last_on, tds_dose_last_off, ph_dosing_until,
                       last_enforce, RELAY_STATES, OVERRIDE_MODE_ENABLED,
                       CALIBRATION_MODE_ENABLED, events, thread_alive, pc, snap,
                       accepted>>

\* set_override, lines 208-209, for one relay
MarkUnknown(name) ==
    /\ relays' = [relays EXCEPT ![name] = [state |-> None, last_change |-> 0]]
    /\ log' = <<>>
    /\ op' = "reset"
    /\ UNCHANGED <<now, boot, wake, stop_event, filters, override_mode,
                   misting_last_on, misting_last_off, tds_dosing_active,
                   tds_dose_last_on, tds_dose_last_off, ph_dosing_until,
                   last_enforce, RELAY_STATES, OVERRIDE_MODE_ENABLED,
                   CALIBRATION_MODE_ENABLED, events, thread_alive, pc, snap, accepted>>

\* set_override, lines 208-209, for one relay, interleaved with a committing
\* set() of the loop thread (lines 135-136): the state written by line 208 and
\* the timestamp written by line 136 survive
MarkUnknownRacing(name) ==
    /\ relays' = [relays EXCEPT ![name] = [state |-> None, last_change |-> now]]
    /\ log' = <<>>
    /\ op' = "reset"
    /\ UNCHANGED <<now, boot, wake, stop_event, filters, override_mode,
                   misting_last_on, misting_last_off, tds_dosing_active,
                   tds_dose_last_on, tds_dose_last_off, ph_dosing_until,
                   last_enforce, RELAY_STATES, OVERRIDE_MODE_ENABLED,
                   CALIBRATION_MODE_ENABLED, events, thread_alive, pc, snap, accepted>>

NextRelay ==
    \/ Advance
    \/ \E name \in TestRelays, state \in {True, False}, force \in BOOLEAN :
          SetCall(name, state, force)
    \/ \E name \in TestRelays : MarkUnknown(name)
    \/ \E name \in TestRelays : MarkUnknownRacing(name)

SpecRelay == InitRelay /\ [][NextRelay]_vars

(***************************************************************************)
(* One SensorFilter object driven directly: any add() call, with the       *)
(* values the feed supplies for it and with invalid ones.  The loop is not *)
(* running.                                                                *)
(***************************************************************************)
TestFilter == "ph"

\* the values the readings carry for the filter, a negative one and a missing one
Samples == {r[SensorKey[TestFilter]] : r \in Readings} \cup {-1, NoSample}

InitFilter ==
    /\ boot = 86400 + 12 * 3600
    /\ events = 0
    /\ Constructed(EmptyFilters, TRUE)

\* log entry of an add() call: the argument, the returned value, and whether the
\* call was one that takes the sample (lines 85 and 89-92 reject none of it)
AddRec(f, value, returned, took) ==
    [kind |-> "add", filter |-> f, value |-> value, returned |-> returned,
     took |-> took]

\* self.filters[f].add(value)
FilterAdd(f, value) ==
    LET new == add(filters[f], value)
        took == ~(value = NoSample \/ value < 0
                  \/ (Len(filters[f]) >= 3 /\ IsOutlier(filters[f], value)))
    IN  /\ took => accepted < MaxAccepted
        /\ filters' = [filters EXCEPT ![f] = new]
        /\ accepted' = IF took THEN accepted + 1 ELSE accepted
        /\ log' = <<AddRec(f, value, add_returns(filters[f], value), took)>>
        /\ op' = "add"
        /\ UNCHANGED <<now, boot, wake, stop_event, relays, override_mode,
                       misting_last_on, misting_last_off, tds_dosing_active,
                       tds_dose_last_on, tds_dose_last_off, ph_dosing_until,
                       last_enforce, RELAY_STATES, OVERRIDE_MODE_ENABLED,
                       CALIBRATION_MODE_ENABLED, events, thread_alive, pc, snap>>

NextFilter == \E value \in Samples : FilterAdd(TestFilter, value)

SpecFilter == InitFilter /\ [][NextFilter]_vars

(***************************************************************************)
(* One SensorFilter object fed a pH that binary floating point does not    *)
(* hold exactly (6.9) next to ones it does (5.0, 7.5), up to MaxFloatLen   *)
(* samples, short of the window length at which the outlier test meets     *)
(* exact ties.                                                             *)
(***************************************************************************)
MaxFloatLen == 6

FloatSamples == {69, 75, 50, -1}

\* self.filters[TestFilter].add(value) on a history shorter than MaxFloatLen
FilterAddShort(value) ==
    /\ Len(filters[TestFilter]) < MaxFloatLen
    /\ FilterAdd(TestFilter, value)

NextFloat == \E value \in FloatSamples : FilterAddShort(value)

SpecFloat == InitFilter /\ [][NextFloat]_vars

(***************************************************************************)
(* The public handlers called while the loop runs, each call recorded:     *)
(* update_sensors with any dictionary (a subset of the known keys, keys    *)
(* that are not known, a value that is None), set_override, get_status.    *)
(***************************************************************************)
\* dictionaries passed to update_sensors
CallReadings ==
    {ReadingsHigh,
     [ph |-> 75, light_lux |-> 300],
     [light_lux |-> 300],
     [do_mg_l |-> NoSample, tds_ppm |-> 810]}

\* the loop starts at noon; one more external event is explored, so that a
\* handler can be called after an override was entered and left
InitCalls ==
    /\ boot = 86400 + 12 * 3600
    /\ events = MaxEvents + 1
    /\ \E readings \in Readings, k \in {0, WarmUp} :
           Constructed(Fed(EmptyFilters, readings, k), FALSE)

\* controller.update_sensors(readings)
UpdateSensorsCall(readings) ==
    /\ events > 0
    /\ events' = events - 1
    /\ filters' = update_sensors(filters, readings)
    /\ op' = "update_sensors"
    /\ log' = <<[kind |-> "update_sensors", readings |-> readings]>>
    /\ UNCHANGED <<now, boot, wake, stop_event, relays, override_mode,
                   misting_last_on, misting_last_off, tds_dosing_active,
                   tds_dose_last_on, tds_dose_last_off, ph_dosing_until, last_enforce,
                   RELAY_STATES, OVERRIDE_MODE_ENABLED, CALIBRATION_MODE_ENABLED,
                   thread_alive, pc, snap, accepted>>

\* controller.get_status(), as GET /api/automation/status calls it
GetStatus ==
    /\ events > 0
    /\ events' = events - 1
    /\ op' = "get_status"
    /\ log' = <<[kind |-> "get_status", returned |-> get_status]>>
    /\ UNCHANGED <<now, boot, wake, stop_event, filters, relays, override_mode,
                   misting_last_on, misting_last_off, tds_dosing_active,
                   tds_dose_last_on, tds_dose_last_off, ph_dosing_until, last_enforce,
                   RELAY_STATES, OVERRIDE_MODE_ENABLED, CALIBRATION_MODE_ENABLED,
                   thread_alive, pc, snap, accepted>>

NextCalls ==
    \/ Advance
    \/ \E fail \in 0..MaxFail : Tick(fail)
    \/ \E readings \in CallReadings : UpdateSensorsCall(readings)
    \/ \E enabled \in BOOLEAN, fail \in 0..MaxFail : SetOverrideMode(enabled, fail)
    \/ GetStatus

SpecCalls == InitCalls /\ [][NextCalls]_vars

(***************************************************************************)
(* Observations used by the properties                                     *)
(***************************************************************************)
\* no callback invocation recorded in l raised
NoRaise(l) == \A i \in DOMAIN l : ~l[i].raised

\* the loop has just completed an iteration and is in its sleep(1)
JustTicked == op = "loop" /\ wake = now + 1

\* this step is an iteration of the loop
TickStep == wake' # wake

PhValves == {"PH_UP", "PH_DOWN"}

(***************************************************************************)
(* C1. pH dose pulse: a pH valve that the rule pass switched ON is OFF     *)
(* again after the first rule pass of the loop that runs at least          *)
(* PH_DOSE_TIME later: after a completed rule pass, no pH valve is ON that *)
(* was switched ON PH_DOSE_TIME or more ago.                               *)
(***************************************************************************)
C1_PhDosePulse ==
    (JustTicked /\ ~override_mode /\ NoRaise(log)) =>
        \A v \in PhValves :
            relays[v].state = True => now - relays[v].last_change < PH_DOSE_TIME

(***************************************************************************)
(* C2. pH valve mutual exclusion: PH_UP and PH_DOWN are never both ON.     *)
(***************************************************************************)
C2_PhMutualExclusion ==
    ~(relays["PH_UP"].state = True /\ relays["PH_DOWN"].state = True)

\* the set() calls recorded in the log
SetCalls == {i \in DOMAIN log : log[i].kind = "set"}

\* the relay of log entry i is as that call found it
Untouched(i) ==
    relays[log[i].relay] = [state |-> log[i].pre, last_change |-> log[i].pre_change]

\* the relay of log entry i holds what that call committed
Committed(i) ==
    relays[log[i].relay] = [state |-> log[i].state, last_change |-> log[i].at]

(***************************************************************************)
(* C3. Debounce: a non-forced set() with a target different from the       *)
(* stored known state, made less than DEBOUNCE_TIME after the last         *)
(* accepted change, returns unchanged and leaves state and timestamp as    *)
(* they were; so a non-forced accepted change of a known state comes at    *)
(* least DEBOUNCE_TIME after the previous accepted change.                 *)
(***************************************************************************)
C3_Debounce ==
    op = "set" =>
        \A i \in SetCalls :
            (log[i].pre # None /\ ~log[i].force /\ log[i].state # log[i].pre) =>
                /\ log[i].at - log[i].pre_change < DEBOUNCE_TIME =>
                       ~log[i].changed /\ Untouched(i)
                /\ log[i].changed => log[i].at - log[i].pre_change >= DEBOUNCE_TIME

\* a change of a known state was requested, unforced, inside the debounce interval
C3_Witness ==
    /\ op = "set"
    /\ \E i \in SetCalls :
          /\ log[i].pre = True /\ log[i].state = False /\ ~log[i].force
          /\ log[i].pre_change > 0
          /\ log[i].at - log[i].pre_change < DEBOUNCE_TIME
          /\ ~log[i].changed

(***************************************************************************)
(* C4. Forced write: set(x, force=True) commits x, stamps the change with  *)
(* the current time and returns changed, whatever the previous state and   *)
(* however recent the last change.                                         *)
(***************************************************************************)
C4_ForcedWrite ==
    op = "set" =>
        \A i \in SetCalls : log[i].force => log[i].changed /\ Committed(i)

\* forced writes were made on an unknown state, on an equal state and on a
\* different state inside the debounce interval
C4_Witness ==
    /\ op = "set"
    /\ \E i \in SetCalls :
          /\ log[i].force /\ log[i].changed
          /\ log[i].pre = log[i].state
          /\ log[i].pre_change > 0
          /\ log[i].at - log[i].pre_change < DEBOUNCE_TIME
          /\ relays[log[i].relay].last_change = log[i].at

\* the callback invocation recorded right after set() call i, for its relay and state
CallbackFollows(l, i) ==
    /\ i + 1 \in DOMAIN l
    /\ l[i + 1].kind = "cb"
    /\ l[i + 1].relay = l[i].relay
    /\ l[i + 1].state = l[i].state

\* the last handler ran a rule pass
RulePassRan == op \in {"loop", "override_exit"}

(***************************************************************************)
(* C5 as stated. In a rule pass the callback is invoked for a request when *)
(* the requested state differs from the stored state or the request is     *)
(* forced, and is not invoked when a non-forced request equals the stored  *)
(* known state.                                                            *)
(***************************************************************************)
C5_CallbackWhenDiffers ==
    RulePassRan =>
        \A i \in SetCalls :
            /\ (log[i].state # log[i].pre \/ log[i].force) => CallbackFollows(log, i)
            /\ (~log[i].force /\ log[i].pre = log[i].state) => ~CallbackFollows(log, i)

(***************************************************************************)
(* C5 amended. In a rule pass the callback is invoked, once and with       *)
(* (relay, requested state), exactly for the requests that set() commits:  *)
(* a forced request, a request on an unknown state, or a request that      *)
(* differs from the stored state DEBOUNCE_TIME or more after the last      *)
(* change.  A non-forced request that equals the stored known state, or    *)
(* that comes inside the debounce interval, invokes no callback.           *)
(***************************************************************************)
C5_CallbackIffCommitted ==
    RulePassRan =>
        /\ \A i \in SetCalls :
              /\ CallbackFollows(log, i) <=> log[i].changed
              /\ log[i].changed <=>
                    \/ log[i].force
                    \/ log[i].pre = None
                    \/ /\ log[i].state # log[i].pre
                       /\ log[i].at - log[i].pre_change >= DEBOUNCE_TIME
        /\ \A j \in DOMAIN log :
              log[j].kind = "cb" => j - 1 \in SetCalls /\ CallbackFollows(log, j - 1)

\* a rule pass made a request that differs from the stored state inside the
\* debounce interval (no callback), and a request that was committed (callback)
C5_Witness ==
    /\ RulePassRan
    /\ \E i \in SetCalls :
          /\ ~log[i].force /\ log[i].pre # None /\ log[i].state # log[i].pre
          /\ ~log[i].changed /\ ~CallbackFollows(log, i)
    /\ \E i \in SetCalls : log[i].changed /\ CallbackFollows(log, i)

\* the controller state that rules and timers make up
Controller ==
    <<relays, misting_last_on, misting_last_off, tds_dosing_active,
      tds_dose_last_on, tds_dose_last_off, ph_dosing_until, last_enforce>>

(***************************************************************************)
(* C6. Override suspends automation: an iteration of the loop that starts  *)
(* while override_mode is true evaluates no rule, changes no Actuator      *)
(* State and no timer, and invokes the callback for no actuator.           *)
(***************************************************************************)
C6_OverrideSuspends ==
    [][(TickStep /\ override_mode) =>
          (Controller' = Controller /\ RELAY_STATES' = RELAY_STATES /\ log' = <<>>)]_vars

\* the loop has completed an iteration under override while a pass would have acted:
\* MISTING is still ON long after its pulse ended
C6_Witness ==
    /\ JustTicked /\ override_mode /\ log = <<>>
    /\ relays["MISTING"].state = True
    /\ now - misting_last_on >= MISTING_ON

(***************************************************************************)
(* C7 as stated. While the calibration flag is set the loop evaluates no   *)
(* rule: no Actuator State of the controller changes and no actuator write *)
(* is made.                                                                *)
(***************************************************************************)
C7_CalibrationSuspendsRules ==
    [][(TickStep /\ CALIBRATION_MODE_ENABLED) =>
          (relays' = relays /\ RELAY_STATES' = RELAY_STATES)]_vars

(***************************************************************************)
(* C7 amended. While the calibration flag is set, no callback of the loop  *)
(* writes the relay mirror RELAY_STATES (no actuator write is made); the   *)
(* loop itself does not read the flag, keeps evaluating the rules and      *)
(* keeps changing its Actuator States.                                     *)
(***************************************************************************)
C7_CalibrationBlocksWrites ==
    [][(TickStep /\ CALIBRATION_MODE_ENABLED) => RELAY_STATES' = RELAY_STATES]_vars

\* under calibration a rule pass of the loop switched MISTING ON and invoked the
\* callback, and the mirror still shows it OFF
C7_Witness ==
    /\ JustTicked /\ CALIBRATION_MODE_ENABLED /\ ~OVERRIDE_MODE_ENABLED
    /\ \E i \in SetCalls :
          /\ log[i].relay = "MISTING" /\ log[i].state = True
          /\ log[i].changed /\ CallbackFollows(log, i) /\ ~log[i + 1].raised
    /\ relays["MISTING"].state = True
    /\ RELAY_STATES[RELAY["MISTING"]] = False

\* in l, the first set() call on each relay found it unknown with timestamp 0
FirstSetsFindUnknown(l) ==
    \A i \in DOMAIN l :
        (l[i].kind = "set" /\ \A j \in 1..(i - 1) : l[j].relay # l[i].relay) =>
            l[i].pre = None /\ l[i].pre_change = 0

\* what a complete rule pass leaves behind when every relay was unknown before it
FullPassAfterReset(rs) ==
    /\ rs["MISTING"].state = False
    /\ rs["GROW_LIGHTS_AERO"].state = PyBool(is_daytime)
    /\ rs["GROW_LIGHTS_DWC"].state = PyBool(is_daytime)
    /\ (ready(filters["temperature"]) \/ ready(filters["humidity"])) =>
          /\ rs["EXHAUST_IN"].state = PyBool(exhaust_needed([f \in FilterNames |-> get(filters[f])], None))
          /\ rs["EXHAUST_OUT"].state = PyBool(exhaust_needed([f \in FilterNames |-> get(filters[f])], None))
    /\ (fast_ready(filters["do"]) /\ Lt(get(filters["do"]), DO_LOW)) =>
          rs["AIR_PUMP"].state = True
    /\ (fast_ready(filters["do"]) /\ Ge(get(filters["do"]), DO_HIGH)) =>
          rs["AIR_PUMP"].state = False
    /\ ready(filters["tds"]) => rs["LEAFY_GREEN"].state # None

AllReady == \A f \in FilterNames : ready(filters[f])

C9_FullResync ==
    [][(override_mode /\ ~override_mode' /\ AllReady /\ NoRaise(log')) =>
          \A n \in RelayNames :
              /\ relays'[n].state # None
              /\ \E i \in DOMAIN log' : log'[i].kind = "cb" /\ log'[i].relay = n]_vars

\* the enforcement callbacks recorded in l
EnforceCalls(l) == {i \in DOMAIN l : l[i].kind = "enforce"}

\* l records one enforcement callback, with the stored state, for each relay whose
\* state is known in rs, and none for a relay whose state is unknown
EnforcedAll(l, rs) ==
    \A n \in RelayNames :
        LET calls == {i \in EnforceCalls(l) : l[i].relay = n}
        IN  IF rs[n].state = None THEN calls = {}
            ELSE /\ Cardinality(calls) = 1
                 /\ \A i \in calls : l[i].state = rs[n].state

\* l records that the rule pass raised
PassRaised(l) == \E i \in DOMAIN l : l[i].kind = "cb" /\ l[i].raised

LightBanks == {"GROW_LIGHTS_AERO", "GROW_LIGHTS_DWC"}

\* relay n was requested by a set() call recorded in l
Requested(l, n) == \E i \in DOMAIN l : l[i].kind = "set" /\ l[i].relay = n

(***************************************************************************)
(* C11. A failing callback does not cut the tick short: whatever callback  *)
(* raised during the rule pass, the rules of the remaining actuators are   *)
(* still evaluated in that tick; in particular every completed iteration   *)
(* of the loop outside override has requested both light banks, whose rule *)
(* has no gate.                                                            *)
(***************************************************************************)
C11_TickContinues ==
    (JustTicked /\ ~override_mode) => \A n \in LightBanks : Requested(log, n)

\* the callback invocations in l that raised for a committed change
RaisedFor(l) == {i \in DOMAIN l : l[i].kind = "cb" /\ l[i].raised}

(***************************************************************************)
(* C12. Optimistic commit on driver failure: when the callback raises for  *)
(* a change that set() has committed, the actuator keeps the new state and *)
(* the new last-change timestamp after the handler, and the callback is    *)
(* not invoked again for that actuator in the same handler.                *)
(***************************************************************************)
C12_OptimisticCommit ==
    \A i \in RaisedFor(log) :
        /\ i > 1 /\ log[i - 1].kind = "set" /\ log[i - 1].changed
        /\ log[i - 1].relay = log[i].relay /\ log[i - 1].state = log[i].state
        /\ relays[log[i].relay].state = log[i].state
        /\ relays[log[i].relay].last_change = log[i].at
        /\ \A j \in DOMAIN log :
               j > i => ~(log[j].kind \in {"cb", "enforce"} /\ log[j].relay = log[i].relay)

\* an iteration of the loop in which the callback raised for a state it switched
C12_Witness ==
    /\ JustTicked
    /\ \E i \in RaisedFor(log) :
           /\ log[i - 1].pre # log[i].state
           /\ relays[log[i].relay].state = log[i].state
           /\ relays[log[i].relay].last_change = now

(***************************************************************************)
(* C13. No fatal errors: after an iteration of the loop in which the       *)
(* callback raised, and as long as stop is not signalled, the loop goes on *)
(* iterating: it reaches the iteration at the end of the explored horizon. *)
(***************************************************************************)
C13_AnotherTick ==
    (op = "loop" /\ ~NoRaise(log) /\ ~stop_event)
        ~> (stop_event \/ wake > boot + Horizon)

\* the callback raised in an iteration, and the loop thread is alive in its sleep
C13_Witness ==
    /\ JustTicked /\ ~NoRaise(log)
    /\ thread_alive /\ ~stop_event
    /\ now < boot + Horizon

(***************************************************************************)
(* C14. Mode-flag atomicity: under every interleaving of set_override with *)
(* the loop thread, no iteration of the loop runs its rule pass with       *)
(* override_mode already false while the override-exit transition has not  *)
(* yet marked every actuator unknown.                                      *)
(***************************************************************************)
C14_ModeFlagAtomic ==
    [][(wake' # wake /\ ~override_mode) => pc \notin 1..Len(RelayOrder)]_vars

\* two filtered values are the same number
SameMean(a, b) == a.num * b.den = b.num * a.den

(***************************************************************************)
(* C15. Consistent filter snapshot: under every interleaving of            *)
(* update_sensors with an iteration reading get(), the value get() returns *)
(* is the mean of the history as it was when get() started or as it is     *)
(* when get() returns, never a mix of the two.                             *)
(***************************************************************************)
C15_ConsistentSnapshot ==
    snap.at = "returned" =>
        SameMean(snap.got, snap.before) \/ SameMean(snap.got, snap.after)

\* the history of the filter driven directly
History == filters[TestFilter]

\* the last n elements of s (all of s if it is shorter)
LastN(s, n) == IF Len(s) <= n THEN s ELSE SubSeq(s, Len(s) - n + 1, Len(s))

\* m is the arithmetic mean of s (0.0 for no samples)
IsMeanOf(m, s) == IF s = <<>> THEN m.num = 0 ELSE m.num * Len(s) = Sum(s) * m.den

(***************************************************************************)
(* C16. Filter mean: every add() call that takes its sample leaves the     *)
(* previous history followed by the sample, cut to its most recent         *)
(* window_size elements (the oldest evicted first); a call that takes none *)
(* leaves the history as it was; the history never exceeds window_size,    *)
(* and the value returned, get(), is the arithmetic mean of the history    *)
(* (0.0 when it is empty).                                                 *)
(***************************************************************************)
C16_FilterMean ==
    [][/\ Len(History') <= FILTER_WINDOW_SIZE
       /\ IF accepted' = accepted + 1
          THEN History' = LastN(Append(History, log'[1].value), FILTER_WINDOW_SIZE)
          ELSE History' = History
       /\ IsMeanOf(log'[1].returned, History')
       /\ IsMeanOf(get(History'), History')]_vars

\* an accepted sample has evicted the oldest one from a full window
C16_Witness ==
    /\ accepted > FILTER_WINDOW_SIZE
    /\ Len(History) = FILTER_WINDOW_SIZE
    /\ log[1].took /\ History[Len(History)] = log[1].value

\* n^2 times the squared deviation of v from the mean of s
Dev2(s, v) == (Len(s) * v - Sum(s)) * (Len(s) * v - Sum(s))

\* n^2 times the variance of s
Var2(s) == Len(s) * SumSq(s) - Sum(s) * Sum(s)

(***************************************************************************)
(* C17. Outlier rejection: whenever the filter holds at least 3 samples,   *)
(* add(v) with |v - mean| greater than 3 times the standard deviation of   *)
(* the held samples leaves the history and the filtered value unchanged,   *)
(* for every held history.                                                 *)
(***************************************************************************)
C17_OutlierRejected ==
    [][(Len(History) >= 3 /\ log'[1].value >= 0
            /\ Dev2(History, log'[1].value) > 9 * Var2(History)) =>
          (History' = History /\ IsMeanOf(log'[1].returned, History))]_vars

(***************************************************************************)
(* C17 amended. Outlier rejection applies only to a history with spread:   *)
(* whenever the filter holds at least 3 samples whose standard deviation   *)
(* is greater than 0, add(v) with |v - mean| greater than 3 times that     *)
(* standard deviation leaves the history and the filtered value unchanged. *)
(***************************************************************************)
C17_OutlierRejectedWithSpread ==
    [][(Len(History) >= 3 /\ log'[1].value >= 0
            /\ Var2(History) > 0
            /\ Dev2(History, log'[1].value) > 9 * Var2(History)) =>
          (History' = History /\ IsMeanOf(log'[1].returned, History))]_vars

\* add() has just refused a non-negative sample as an outlier
C17_Witness ==
    /\ op = "add" /\ log[1].value >= 0 /\ ~log[1].took
    /\ Len(History) >= 3 /\ Var2(History) > 0
    /\ Dev2(History, log[1].value) > 9 * Var2(History)
    /\ IsMeanOf(log[1].returned, History)

(***************************************************************************)
(* C18. Negative sample: add(v) with v negative or missing is a no-op in   *)
(* every filter state: the history is unchanged and the value returned is  *)
(* the unchanged mean.                                                     *)
(***************************************************************************)
C18_NegativeIgnored ==
    [][(log'[1].value < 0 \/ log'[1].value = NoSample) =>
          (History' = History /\ IsMeanOf(log'[1].returned, History))]_vars

\* add() has just been called with a negative sample on a full window
C18_Witness ==
    /\ op = "add" /\ log[1].value = -1
    /\ Len(History) = FILTER_WINDOW_SIZE
    /\ IsMeanOf(log[1].returned, History)

(***************************************************************************)
(* C19. Readiness tiers: after any sequence of add() calls, ready() is     *)
(* true iff at least window_size / 2 samples have been accepted, and       *)
(* fast_ready() is true iff at least 2 samples have been accepted.         *)
(***************************************************************************)
C19_ReadinessTiers ==
    /\ ready(History) <=> 2 * accepted >= FILTER_WINDOW_SIZE
    /\ fast_ready(History) <=> accepted >= 2

\* the fifth accepted sample has made the filter ready, after a refused one
C19_Witness ==
    /\ 2 * accepted = FILTER_WINDOW_SIZE
    /\ ready(History) /\ fast_ready(History)
    /\ op = "add" /\ ~log[1].took

\* the rule pass just run has asked RelayState.set for state st of relay n
RequestedState(l, n, st) ==
    \E i \in DOMAIN l : l[i].kind = "set" /\ l[i].relay = n /\ l[i].state = st

(***************************************************************************)
(* C20. Air pump hysteresis: in the rule pass of a loop iteration outside  *)
(* override with the DO filter fast-ready, a filtered DO below DO_LOW      *)
(* (7.0) requests AIR_PUMP ON, a filtered DO of DO_HIGH (8.5) or more      *)
(* requests AIR_PUMP OFF, and a filtered DO in between makes no request    *)
(* for AIR_PUMP, whose state stays what it was.  A loop iteration is the   *)
(* step that moves wake.                                                   *)
(***************************************************************************)
C20_AirPumpHysteresis ==
    [][(wake' # wake /\ ~override_mode /\ fast_ready(filters["do"])) =>
          /\ Lt(get(filters["do"]), DO_LOW) =>
                 RequestedState(log', "AIR_PUMP", True)
          /\ Ge(get(filters["do"]), DO_HIGH) =>
                 RequestedState(log', "AIR_PUMP", False)
          /\ (Ge(get(filters["do"]), DO_LOW) /\ Lt(get(filters["do"]), DO_HIGH)) =>
                 (~Requested(log', "AIR_PUMP") /\ relays'["AIR_PUMP"] = relays["AIR_PUMP"])]_vars

\* this step runs a rule pass: an iteration of the loop outside override, or the
\* exit from override
PassStep == (TickStep /\ ~override_mode) \/ (override_mode /\ ~override_mode')

\* the state of relay n as the rule pass of this step finds it: unknown on the
\* exit from override, the stored state in an iteration of the loop
Found(n) == IF override_mode THEN None ELSE relays[n].state

ExhaustFans == {"EXHAUST_IN", "EXHAUST_OUT"}

\* every relay of ns was requested in l, and with state st only
AllRequestedAs(l, ns, st) ==
    /\ \A n \in ns : RequestedState(l, n, st)
    /\ \A i \in DOMAIN l : (l[i].kind = "set" /\ l[i].relay \in ns) => l[i].state = st

\* the state the temperature thresholds call for, given the state seed to hold
\* inside the band
TemperatureWants(seed) ==
    LET temp == get(filters["temperature"])
        day == LIGHTS_ON_HOUR <= Hour(now) /\ Hour(now) < LIGHTS_OFF_HOUR
    IN  IF day
        THEN IF Gt(temp, TEMP_DAY_HIGH) THEN True
             ELSE IF Le(temp, TEMP_DAY_LOW) THEN False ELSE seed
        ELSE IF Gt(temp, TEMP_NIGHT_HIGH) THEN True
             ELSE IF Le(temp, TEMP_NIGHT_LOW) THEN False ELSE seed

\* the current EXHAUST_IN state as a request can carry it: ON if it is ON, OFF if
\* it is OFF or unknown
HeldExhaust == IF Found("EXHAUST_IN") = True THEN True ELSE False

(***************************************************************************)
(* C21. Exhaust temperature decision: every rule pass that runs with the   *)
(* temperature filter ready and the filtered humidity not above            *)
(* HUMIDITY_HIGH requests both exhaust fans, with ON when the filtered     *)
(* temperature is above the high threshold of the time of day, OFF when it *)
(* is at or below the low threshold, and the current EXHAUST_IN state      *)
(* (OFF if unknown) when it is inside the band.                            *)
(***************************************************************************)
C21_ExhaustByTemperature ==
    [][(PassStep /\ ready(filters["temperature"])
            /\ Le(get(filters["humidity"]), HUMIDITY_HIGH)) =>
          AllRequestedAs(log', ExhaustFans, TemperatureWants(HeldExhaust))]_vars

(***************************************************************************)
(* C22. Humidity only turns exhaust on: every rule pass that runs with the *)
(* humidity filter ready requests both exhaust fans; with ON when the      *)
(* filtered humidity is above HUMIDITY_HIGH, whatever the temperature, and *)
(* otherwise with exactly the state the temperature thresholds give (the   *)
(* current state when the temperature filter is not ready).                *)
(***************************************************************************)
C22_HumidityOnlyTurnsOn ==
    [][(PassStep /\ ready(filters["humidity"])) =>
          AllRequestedAs(log', ExhaustFans,
              IF Gt(get(filters["humidity"]), HUMIDITY_HIGH) THEN True
              ELSE IF ready(filters["temperature"]) THEN TemperatureWants(HeldExhaust)
              ELSE HeldExhaust)]_vars

\* the request recorded for relay n in l was not refused by the debounce
NotDebounced(l, n) ==
    \A i \in DOMAIN l :
        (l[i].kind = "set" /\ l[i].relay = n) => (l[i].changed \/ l[i].pre = l[i].state)

(***************************************************************************)
(* C23. Grow lights: every rule pass requests both light banks, with ON    *)
(* iff the local hour is in [LIGHTS_ON_HOUR, LIGHTS_OFF_HOUR), whatever    *)
(* the filters hold; and after the pass each bank whose request the        *)
(* debounce did not refuse is in that state.                               *)
(***************************************************************************)
C23_GrowLights ==
    [][PassStep =>
          LET want == PyBool(LIGHTS_ON_HOUR <= Hour(now) /\ Hour(now) < LIGHTS_OFF_HOUR)
          IN  /\ AllRequestedAs(log', LightBanks, want)
              /\ \A n \in LightBanks :
                     NotDebounced(log', n) => relays'[n].state = want]_vars

\* the set() calls recorded in l for relay n
SetCallsOf(l, n) == {i \in DOMAIN l : l[i].kind = "set" /\ l[i].relay = n}

(***************************************************************************)
(* C24. Misting ON pulse: MISTING switched ON at time t is switched OFF by *)
(* the first rule pass at which now - t >= MISTING_ON: no rule pass leaves *)
(* MISTING ON that was switched ON MISTING_ON or more ago.  Every request  *)
(* the misting rule makes is forced and is committed, so the debounce      *)
(* interval never blocks it.                                               *)
(***************************************************************************)
C24_MistingOnPulse ==
    [][PassStep =>
          /\ relays'["MISTING"].state = True =>
                 now - relays'["MISTING"].last_change < MISTING_ON
          /\ \A i \in SetCallsOf(log', "MISTING") : log'[i].force /\ log'[i].changed]_vars

\* an iteration of the loop has switched MISTING OFF, MISTING_ON after it was
\* switched ON
C24_Witness ==
    /\ JustTicked /\ ~override_mode
    /\ relays["MISTING"] = [state |-> False, last_change |-> now]
    /\ \E i \in SetCallsOf(log, "MISTING") :
          /\ log[i].state = False /\ log[i].pre = True /\ log[i].pre_change > 0
          /\ log[i].at - log[i].pre_change >= MISTING_ON
          /\ log[i].force /\ log[i].changed

(***************************************************************************)
(* C25. Misting OFF interval: the controller never switches MISTING ON     *)
(* less than MISTING_OFF after it last switched MISTING OFF, also across   *)
(* an override exit.  Stated for a MISTING that has been ON before and was *)
(* switched OFF since: a rule pass that finds it OFF and switches it ON    *)
(* runs MISTING_OFF or more after the switch to OFF.                       *)
(***************************************************************************)
C25_MistingOffInterval ==
    [][(PassStep /\ misting_last_on > 0
            /\ Found("MISTING") = False /\ relays["MISTING"].last_change > 0
            /\ relays'["MISTING"].state = True) =>
          now - relays["MISTING"].last_change >= MISTING_OFF]_vars

(***************************************************************************)
(* C26. Nutrient active flag: every rule pass that runs with the TDS       *)
(* filter ready sets tds_dosing_active when the filtered TDS is below      *)
(* TDS_LOW, clears it when the filtered TDS is TDS_HIGH or more (and then  *)
(* forces LEAFY_GREEN OFF if it was ON), and leaves it unchanged when the  *)
(* filtered TDS is in between.                                             *)
(***************************************************************************)
C26_NutrientActiveFlag ==
    [][(PassStep /\ ready(filters["tds"])) =>
          IF Lt(get(filters["tds"]), TDS_LOW) THEN tds_dosing_active'
          ELSE IF Ge(get(filters["tds"]), TDS_HIGH)
          THEN /\ ~tds_dosing_active'
               /\ Found("LEAFY_GREEN") = True =>
                     /\ relays'["LEAFY_GREEN"].state = False
                     /\ \E i \in SetCallsOf(log', "LEAFY_GREEN") :
                            log'[i].state = False /\ log'[i].force /\ log'[i].changed
          ELSE tds_dosing_active' = tds_dosing_active]_vars

(***************************************************************************)
(* C27. Nutrient pulse: while the TDS filter is ready and dosing is and    *)
(* stays active, LEAFY_GREEN is ON until the first rule pass TDS_DOSE_ON   *)
(* or more after it was switched ON and then OFF until the first rule pass *)
(* TDS_DOSE_OFF or more after it was switched OFF, by forced requests: a   *)
(* rule pass leaves no valve ON that was switched ON TDS_DOSE_ON or more   *)
(* ago, switches a valve OFF only TDS_DOSE_ON or more after it was         *)
(* switched ON, and switches a valve that has been ON before to ON only    *)
(* TDS_DOSE_OFF or more after it was switched OFF.                         *)
(***************************************************************************)
C27_NutrientPulse ==
    [][(PassStep /\ ready(filters["tds"]) /\ tds_dosing_active /\ tds_dosing_active') =>
          /\ relays'["LEAFY_GREEN"].state = True =>
                 now - relays'["LEAFY_GREEN"].last_change < TDS_DOSE_ON
          /\ \A i \in SetCallsOf(log', "LEAFY_GREEN") :
                 /\ log'[i].force
                 /\ (log'[i].state = False /\ log'[i].pre = True) =>
                        log'[i].at - log'[i].pre_change >= TDS_DOSE_ON
                 /\ (log'[i].state = True /\ log'[i].pre = False
                         /\ log'[i].pre_change > 0 /\ tds_dose_last_on > 0) =>
                        log'[i].at - log'[i].pre_change >= TDS_DOSE_OFF]_vars

\* the pulse and dosing timers of the controller
Timers ==
    <<misting_last_on, misting_last_off, tds_dosing_active, tds_dose_last_on,
      tds_dose_last_off, ph_dosing_until, last_enforce>>

(***************************************************************************)
(* C28. A set_override call that is not a true-to-false transition         *)
(* (entering override, or repeating the current value) changes nothing but *)
(* the override flag: every Actuator State with its last-change timestamp, *)
(* every timer and every filter is unchanged, no relay is requested (no    *)
(* rule pass runs) and the callback is not invoked.                        *)
(***************************************************************************)
C28_SetOverrideFrame ==
    [][(op' = "set_override" /\ now' = now) =>
          /\ relays' = relays
          /\ Timers' = Timers
          /\ filters' = filters
          /\ wake' = wake /\ stop_event' = stop_event
          /\ log' = <<>>]_vars

\* set_override(False) was repeated outside override while MISTING was ON and
\* its pulse had run out: a rule pass would have switched it OFF
C28_Witness ==
    /\ op = "set_override" /\ ~override_mode /\ log = <<>>
    /\ relays["MISTING"].state = True
    /\ now - misting_last_on >= MISTING_ON
    /\ now >= wake

(***************************************************************************)
(* C29. update_sensors(readings) applies add() once to the filter of each  *)
(* known key present in readings and leaves every other filter, every      *)
(* Actuator State, every timer and the mode flags unchanged; a key that is *)
(* not one of the five known ones has no effect.                           *)
(***************************************************************************)
C29_UpdateSensorsFrame ==
    [][(op' = "update_sensors" /\ now' = now) =>
          /\ \A f \in FilterNames :
                filters'[f] = IF SensorKey[f] \in DOMAIN log'[1].readings
                              THEN add(filters[f], log'[1].readings[SensorKey[f]])
                              ELSE filters[f]
          /\ relays' = relays
          /\ Timers' = Timers
          /\ override_mode' = override_mode
          /\ OVERRIDE_MODE_ENABLED' = OVERRIDE_MODE_ENABLED
          /\ CALIBRATION_MODE_ENABLED' = CALIBRATION_MODE_ENABLED
          /\ RELAY_STATES' = RELAY_STATES]_vars

\* update_sensors was called with the pH key and a key that is not known: the pH
\* filter took the sample, the other filters hold what they held
C29_Witness ==
    /\ op = "update_sensors"
    /\ DOMAIN log[1].readings = {"ph", "light_lux"}
    /\ Len(filters["ph"]) = WarmUp + 1
    /\ Len(filters["do"]) = WarmUp
    /\ filters["ph"][WarmUp + 1] = log[1].readings["ph"]
    /\ relays["MISTING"].state = True

(***************************************************************************)
(* C30. get_status() is read-only: it leaves filters, Actuator States      *)
(* (unknown ones too), timers and mode flags unchanged, invokes no         *)
(* callback, and reports for each actuator its stored state: ON, OFF or    *)
(* unknown.                                                                *)
(***************************************************************************)
C30_GetStatusReadOnly ==
    [][(op' = "get_status" /\ now' = now) =>
          /\ filters' = filters
          /\ relays' = relays
          /\ Timers' = Timers
          /\ override_mode' = override_mode
          /\ OVERRIDE_MODE_ENABLED' = OVERRIDE_MODE_ENABLED
          /\ CALIBRATION_MODE_ENABLED' = CALIBRATION_MODE_ENABLED
          /\ RELAY_STATES' = RELAY_STATES
          /\ Len(log') = 1 /\ log'[1].kind = "get_status"
          /\ DOMAIN log'[1].returned.relay_states = RelayNames
          /\ \A n \in RelayNames :
                /\ log'[1].returned.relay_states[n] = relays[n].state
                /\ log'[1].returned.relay_states[n] \in {True, False, None}]_vars

\* get_status was called after an override exit that left an actuator unknown:
\* it reports unknown, ON and OFF states, and the unknown state is still unknown
C30_Witness ==
    /\ op = "get_status"
    /\ \E n \in RelayNames :
          relays[n].state = None /\ log[1].returned.relay_states[n] = None
    /\ \E n \in RelayNames : log[1].returned.relay_states[n] = True
    /\ \E n \in RelayNames : log[1].returned.relay_states[n] = False

\* the loop thread is inside an iteration
InProgress == snap.at = "summed"

(***************************************************************************)
(* C31. Stop: once stop has been signalled, the iteration in progress runs *)
(* to completion (it ends as an iteration does, in sleep(1)), no further   *)
(* iteration starts, and the loop terminates (within the explored horizon, *)
(* the last iteration's sleep permitting).                                 *)
(***************************************************************************)
C31_Stop ==
    /\ [][stop_event => /\ stop_event'
                        /\ TickStep => (InProgress /\ wake' = now + 1 /\ op' = "loop")
                        /\ InProgress' => InProgress]_vars
    /\ (stop_event /\ InProgress) ~> (stop_event /\ snap.at = "returned")
    /\ stop_event ~> (~thread_alive \/ wake > boot + Horizon)

\* stop was signalled, an iteration that read a filter across a thread switch
\* has completed, and the loop thread has ended
C31_Witness ==
    /\ stop_event /\ ~thread_alive
    /\ snap.at = "returned" /\ op = "loop"
    /\ now >= wake

\* relay n as the rule pass of this step finds it: reset on the exit from
\* override, as stored in an iteration of the loop
AtPassStart(n) == IF override_mode THEN [state |-> None, last_change |-> 0] ELSE relays[n]

\* the rule pass recorded in l made no request and no callback for a relay of ns
\* and left each as it found it
Skipped(l, ns) ==
    /\ \A n \in ns : relays'[n] = AtPassStart(n)
    /\ \A i \in DOMAIN l : l[i].kind \in {"set", "cb"} => l[i].relay \notin ns

(***************************************************************************)
(* C32. Not-ready rules are skipped: in a rule pass where the gating       *)
(* filter is not ready (DO not fast-ready for the air pump; neither        *)
(* temperature nor humidity ready for the exhaust pair; pH not ready for   *)
(* both pH valves; TDS not ready for nutrient dosing) the gated actuators  *)
(* keep the state and last-change timestamp the pass found, the rule's     *)
(* timers (ph_dosing_until, tds_dosing_active, the TDS dose timers) are    *)
(* unchanged, and the pass makes no request and no callback for them.      *)
(***************************************************************************)
C32_NotReadySkipped ==
    [][PassStep =>
          /\ ~fast_ready(filters["do"]) => Skipped(log', {"AIR_PUMP"})
          /\ (~ready(filters["temperature"]) /\ ~ready(filters["humidity"])) =>
                 Skipped(log', ExhaustFans)
          /\ ~ready(filters["ph"]) =>
                 /\ Skipped(log', PhValves)
                 /\ ph_dosing_until' = ph_dosing_until
          /\ ~ready(filters["tds"]) =>
                 /\ Skipped(log', {"LEAFY_GREEN"})
                 /\ tds_dosing_active' = tds_dosing_active
                 /\ tds_dose_last_on' = tds_dose_last_on
                 /\ tds_dose_last_off' = tds_dose_last_off]_vars

\* a loop iteration has run its rule pass to the end (both light banks requested)
\* with one low DO sample in the filter, which an ungated air pump rule would act
\* on, and with no pH and no TDS filter ready: AIR_PUMP is as constructed
C32_Witness ==
    /\ JustTicked /\ ~override_mode
    /\ \A n \in LightBanks : Requested(log, n)
    /\ Len(filters["do"]) = 1 /\ Lt(get(filters["do"]), DO_LOW)
    /\ ~ready(filters["ph"]) /\ ~ready(filters["tds"])
    /\ ~ready(filters["temperature"]) /\ ~ready(filters["humidity"])
    /\ ~Requested(log, "AIR_PUMP")
    /\ relays["AIR_PUMP"] = RelayState_init

(***************************************************************************)
(* C33. Unknown state bypasses debounce: a non-forced set(x) on a relay    *)
(* whose state is unknown commits x, stamps the change with the current    *)
(* time and returns changed, whatever the last-change timestamp; a         *)
(* non-forced set(x) with x equal to the stored known state returns        *)
(* unchanged and leaves state and timestamp as they were.                  *)
(***************************************************************************)
C33_UnknownBypassesDebounce ==
    op = "set" =>
        \A i \in SetCalls :
            ~log[i].force =>
                /\ log[i].pre = None => log[i].changed /\ Committed(i)
                /\ log[i].pre = log[i].state => ~log[i].changed /\ Untouched(i)

\* a non-forced set() found the state unknown with a last-change timestamp inside
\* the debounce interval, and committed
C33_Witness ==
    /\ op = "set"
    /\ \E i \in SetCalls :
          /\ log[i].pre = None /\ ~log[i].force
          /\ log[i].pre_change > 0
          /\ log[i].at - log[i].pre_change < DEBOUNCE_TIME
          /\ log[i].changed
          /\ relays[log[i].relay].state = log[i].state

\* the rule pass recorded in l ran to its end: both light banks and, the exhaust
\* rule being open, both fans were requested, and no callback raised
Completed(l) ==
    /\ NoRaise(l)
    /\ \A n \in LightBanks : Requested(l, n)

(***************************************************************************)
(* C34. Exhaust pair moves as one unit: after every completed rule pass,   *)
(* following any sequence of sensor updates, ticks, override toggles and   *)
(* callback failures, the EXHAUST_IN and EXHAUST_OUT states are equal.     *)
(***************************************************************************)
C34_ExhaustPair ==
    [][(PassStep /\ Completed(log')) =>
          relays'["EXHAUST_IN"].state = relays'["EXHAUST_OUT"].state]_vars

(***************************************************************************)
(* C35. Unknown-state initialization of misting: a rule pass that finds    *)
(* MISTING unknown makes one request for it, OFF and forced, which commits *)
(* (MISTING is OFF, stamped now, after the pass) and is followed by the    *)
(* callback with OFF; misting_last_on and misting_last_off are unchanged.  *)
(***************************************************************************)
C35_MistingInit ==
    [][(PassStep /\ Found("MISTING") = None) =>
          /\ Cardinality(SetCallsOf(log', "MISTING")) = 1
          /\ \A i \in SetCallsOf(log', "MISTING") :
                /\ log'[i].state = False /\ log'[i].force /\ log'[i].changed
                /\ log'[i].pre = None
                /\ CallbackFollows(log', i)
          /\ relays'["MISTING"] = [state |-> False, last_change |-> now]
          /\ misting_last_on' = misting_last_on
          /\ misting_last_off' = misting_last_off]_vars

\* an override exit interrupted an ON pulse (begun less than MISTING_ON ago, long
\* after the last OFF interval began): its pass forced MISTING OFF and kept the timers
C35_Witness ==
    /\ op = "override_exit"
    /\ relays["MISTING"] = [state |-> False, last_change |-> now]
    /\ misting_last_on > 0 /\ now - misting_last_on < MISTING_ON
    /\ now - misting_last_off >= MISTING_OFF
    /\ \E i \in SetCallsOf(log, "MISTING") : log[i].pre = None /\ CallbackFollows(log, i)

(***************************************************************************)
(* C36. Inactive dosing keeps the valve off: after every completed rule    *)
(* pass in which the TDS filter is ready, tds_dosing_active = false        *)
(* implies that LEAFY_GREEN is not ON.                                     *)
(***************************************************************************)
C36_InactiveValveOff ==
    [][(PassStep /\ Completed(log') /\ ready(filters["tds"]) /\ ~tds_dosing_active') =>
          relays'["LEAFY_GREEN"].state # True]_vars

\* a completed loop iteration found the filtered TDS at TDS_HIGH or more with the
\* valve ON, cleared the flag and forced the valve OFF
C36_Witness ==
    /\ JustTicked /\ Completed(log)
    /\ ready(filters["tds"]) /\ Ge(get(filters["tds"]), TDS_HIGH)
    /\ ~tds_dosing_active
    /\ tds_dose_last_on > 0
    /\ relays["LEAFY_GREEN"] = [state |-> False, last_change |-> now]
    /\ \E i \in SetCallsOf(log, "LEAFY_GREEN") :
          log[i].pre = True /\ log[i].state = False /\ log[i].force

\* the callback invocations recorded in l, from _set_relay and from enforcement
CallbackCalls(l) == {i \in DOMAIN l : l[i].kind \in {"cb", "enforce"}}

(***************************************************************************)
(* C37. The driver callback is never invoked with an unknown state: under  *)
(* every interleaving of the loop thread (rule pass and periodic           *)
(* enforcement) with set_override on another thread, each callback         *)
(* invocation carries ON or OFF.                                           *)
(***************************************************************************)
C37_CallbackKnownState ==
    \A i \in CallbackCalls(log) : log[i].state \in {True, False}

\* the samples of s are all equal
AllEqual(s) == \A i \in DOMAIN s : s[i] = s[1]

(***************************************************************************)
(* C38. Zero-spread history accepts everything: when the filter holds at   *)
(* least 3 samples that are all equal, add(v) takes every non-negative v,  *)
(* however far v is from the mean.                                         *)
(***************************************************************************)
C38_ZeroSpreadAccepts ==
    [][(Len(History) >= 3 /\ AllEqual(History) /\ log'[1].value >= 0) =>
          (log'[1].took /\ History' = DequeAppend(History, log'[1].value))]_vars

\* neither module flag of api.py suspends the actuator writes
FlagsClear == ~OVERRIDE_MODE_ENABLED /\ ~CALIBRATION_MODE_ENABLED

\* the mirror shows the controller's state of every actuator whose state is known
Synced == \A n \in RelayNames : relays[n].state # None => RELAY_STATES[RELAY[n]] = relays[n].state

\* what the resync bound does not cover: a flag set again, the loop suspended,
\* stopped or late, a callback that raised
Excused ==
    \/ ~FlagsClear \/ override_mode
    \/ stop_event \/ ~thread_alive
    \/ ~NoRaise(log)
    \/ (TickDue /\ now > wake)

(***************************************************************************)
(* C39. Mirror protection under suspension: the callbacks of a loop        *)
(* iteration or of an override exit that run while OVERRIDE_MODE_ENABLED   *)
(* or CALIBRATION_MODE_ENABLED is true leave RELAY_STATES unchanged (as    *)
(* the mode request zeroed it, for the exit); and from every state with    *)
(* both flags clear, the loop running on time and no callback failing,     *)
(* RELAY_STATES equals the controller's state for every actuator with a    *)
(* known state within ENFORCE_INTERVAL (10 s) plus one tick; stated for    *)
(* the instants whose deadline lies inside the explored horizon.           *)
(***************************************************************************)
C39_MirrorProtection ==
    /\ [][/\ (TickStep /\ ~FlagsClear) => RELAY_STATES' = RELAY_STATES
          /\ (override_mode /\ ~override_mode' /\ CALIBRATION_MODE_ENABLED) =>
                 RELAY_STATES' = [i \in 1..9 |-> False]]_vars
    /\ \A k \in 0..(Horizon - ENFORCE_INTERVAL - 1) :
          (FlagsClear /\ now - boot = k)
              ~> ((Synced /\ now - boot <= k + ENFORCE_INTERVAL + 1) \/ Excused)

\* a loop iteration invoked the callback for a light bank it switched ON while a
\* flag was set, the flags have been cleared since, and the mirror still shows the
\* bank OFF; the loop is running and the next enforcement is inside the horizon
C39_Witness ==
    /\ JustTicked /\ NoRaise(log) /\ FlagsClear /\ ~override_mode
    /\ thread_alive /\ ~stop_event
    /\ now + ENFORCE_INTERVAL + 1 <= boot + Horizon
    /\ \E i \in SetCalls :
          /\ log[i].relay = "GROW_LIGHTS_AERO" /\ log[i].state = True
          /\ CallbackFollows(log, i)
    /\ relays["GROW_LIGHTS_AERO"].state = True
    /\ RELAY_STATES[RELAY["GROW_LIGHTS_AERO"]] = False

\* the loop is running its rules with the DO filter fast-ready and the filtered
\* DO below DO_LOW
LowOxygen ==
    /\ thread_alive /\ ~stop_event /\ ~override_mode
    /\ fast_ready(filters["do"]) /\ Lt(get(filters["do"]), DO_LOW)

(***************************************************************************)
(* C40. Low-oxygen response is bounded: while the loop is running (on      *)
(* time, outside override) with the DO filter fast-ready and the filtered  *)
(* DO below DO_LOW (7.0) on every tick, the AIR_PUMP state becomes ON      *)
(* within DEBOUNCE_TIME (5 s) plus one tick, from any starting state;      *)
(* stated for the instants whose deadline lies inside the explored         *)
(* horizon.                                                                *)
(***************************************************************************)
C40_LowOxygenBounded ==
    \A k \in 0..(Horizon - DEBOUNCE_TIME - 1) :
        (LowOxygen /\ now - boot = k)
            ~> \/ relays["AIR_PUMP"].state = True /\ now - boot <= k + DEBOUNCE_TIME + 1
               \/ ~LowOxygen
               \/ (TickDue /\ now > wake)

====
